---- MODULE Spec2Model ----
(***************************************************************************)
(* InDB: a promise wrapper over IndexedDB.  The model follows the class    *)
(* InDBStore (the per-store facade) and the part of InDB it shares: the    *)
(* cached connection.  The IndexedDB engine is the environment: it opens   *)
(* connections in request order, runs transactions of overlapping scope in *)
(* creation order, and delivers success / error / complete / abort events. *)
(***************************************************************************)
EXTENDS Integers, Sequences, FiniteSets, TLC

VARIABLES
  ops,         \* the operations called so far, in call order (index = call number)
  queue,       \* InDBStore._queue of every facade: the deferers, by call number
  connection,  \* InDB.connection: TRUE when a connection is cached, FALSE when null
  opens,       \* indexedDB.open requests in flight, in request order
  created,     \* call numbers in the order their transactions were created
  store,       \* the records of every object store, by primary key
  store0,      \* the records the stores held when the manager was constructed
  nfail,       \* engine failures injected so far
  scan,        \* the cursor scan of some(count, offset) in progress
  burst,       \* TRUE while the caller's synchronous code has reactions queued
  connections, \* the open connections, by the call whose connect() opened them
  manager,     \* the InDB instance: its cache of facades and its declared stores
  uses,        \* the calls of use(name) so far, with what each returned
  engine       \* the object stores and indexes of the database, and its upgrade

vars == <<ops, queue, connection, opens, created, store, store0, nfail, scan, burst,
          connections, manager, uses, engine>>

----------------------------------------------------------------------------
\* Bounds of the model.
\* Calls of a caller that awaits each operation; calls issued without awaiting.
MaxCalls == 2
MaxQueued == 5
MaxFailures == 1
\* Records of a scanned store, and the largest count and offset of some().
MaxRecords == 3
MaxCount == 3
MaxOffset == 3

\* The declared stores (one facade each), the key values and the field values.
Stores == {"s1"}
KeyVals == {0, 1}
Names == {"a", "b"}

----------------------------------------------------------------------------
\* JavaScript values.
Undef == [t |-> "undefined"]
Num(n) == [t |-> "num", v |-> n]
Obj(k, v) == [t |-> "obj", id |-> k, name |-> v]
Arr(s) == [t |-> "arr", items |-> s]

Objs == {Obj(Num(k), v) : k \in KeyVals, v \in Names}
KeyArgs == {Num(k) : k \in KeyVals}

\* `!v`: undefined and the number 0 are falsy, objects and arrays are truthy.
Falsy(v) == v = Undef \/ v = Num(0)

IsArray(v) == v.t = "arr"

\* obj[0] of an array argument: undefined when the array is empty.
First(a) == IF Len(a.items) = 0 THEN Undef ELSE a.items[1]

\* The primary key path of the stores.
primaryKeyPath == "id"

\* parse(obj, path) for a one-segment path: the property, or undefined.
parse(obj, path) ==
  IF obj.t = "obj" /\ path \in DOMAIN obj THEN obj[path] ELSE Undef

\* A value IndexedDB accepts as a key (undefined is not one: DataError).
ValidKey(k) == k.t = "num"

Str(v) == [t |-> "str", v |-> v]

\* parse(obj, keyPath) as a JavaScript value: the names are strings.
Value(obj, keyPath) ==
  IF obj.t = "obj" /\ keyPath = "name" THEN Str(parse(obj, keyPath))
                                       ELSE parse(obj, keyPath)

\* store.indexes: the declared indexes of the store.
indexes == <<[name |-> "byName", keyPath |-> "name"],
             [name |-> "id", keyPath |-> "id"],
             [name |-> "age", keyPath |-> "age"]>>

\* indexesMapping[key] || key
KeyPathOf(key) ==
  IF \E n \in 1..Len(indexes) : indexes[n].name = key
    THEN indexes[CHOOSE n \in 1..Len(indexes) : indexes[n].name = key].keyPath
    ELSE key

\* a === b and a !== b of two values.
StrictEq(a, b) == a.t = b.t /\ a = b

\* Errors.  A message is a sequence of pieces of text, so that the tag can be
\* looked for in it and the prefix put before it.
Tag == "[IndexedDB]"
Prefix == <<Tag, ": ">>
Error(message) == [t |-> "error", message |-> message]

\* The event the engine passes to request.onerror: an Event of type error,
\* whose target is the request.  It has no property `message`.
ErrorEvent == [t |-> "event", type |-> "error"]

\* What a call gives that throws a TypeError.
TypeError == [t |-> "thrown", name |-> "TypeError"]

\* message.indexOf('[IndexedDB]') # -1
HasTag(message) == \E n \in 1..Len(message) : message[n] = Tag

\* modifyError(e): `message.indexOf` throws when e has no message.
modifyError(e) ==
  IF "message" \notin DOMAIN e THEN TypeError
  ELSE [e EXCEPT !.message = IF HasTag(e.message) THEN e.message ELSE Prefix \o e.message]

\* A value the engine accepts as the key of an index entry or of a range bound.
IndexKey(k) == k.t \in {"num", "str"}

\* The key order of the engine: every number is less than every string;
\* numbers by value, strings by code unit.
KeyLess(a, b) ==
  \/ a.t = "num" /\ b.t = "str"
  \/ a.t = "num" /\ b.t = "num" /\ a.v < b.v
  \/ a.t = "str" /\ b.t = "str" /\ a.v = "a" /\ b.v = "b"

\* The entries of the index in a set of records: by index key, then by primary
\* key.
RECURSIVE IndexOrder(_, _)
IndexOrder(S, keyPath) ==
  IF S = {} THEN <<>>
  ELSE LET r == CHOOSE m \in S : \A n \in S :
                  \/ KeyLess(Value(m, keyPath), Value(n, keyPath))
                  \/ StrictEq(Value(m, keyPath), Value(n, keyPath)) /\ m.id.v <= n.id.v
       IN <<r>> \o IndexOrder(S \ {r}, keyPath)

\* The records of a store.
Records(recs) == {recs[k] : k \in DOMAIN recs} \ {Undef}

\* objectStore.index(key).get(value): the first record of the index whose key
\* is value, undefined when there is none.
IndexGet(recs, key, value) ==
  LET hits == IndexOrder({r \in Records(recs) : StrictEq(Value(r, KeyPathOf(key)), value)},
                         KeyPathOf(key))
  IN IF hits = <<>> THEN Undef ELSE hits[1]

\* The names of the declared indexes of the store.
IndexNames == {indexes[n].name : n \in 1..Len(indexes)}

----------------------------------------------------------------------------
\* The facade: InDBStore.

\* The deferer i waits for has settled, so its reaction is due.
ReactionDue(i) ==
  /\ ops[i].d = "chained"
  /\ ops[ops[i].after].d \in {"created", "failed"}

\* A microtask is queued: engine events (tasks) wait until none is.
MicrotaskPending ==
  \E i \in 1..Len(ops) : ops[i].d = "resolving" \/ ReactionDue(i)

\* The caller's code runs in a task of its own or in the reaction to one of its
\* promises: never between the reactions that an engine event has queued.
Callable == burst \/ ~MicrotaskPending

\* this._queue[this._queue.length - 1]: the latest deferer, 0 when there is none.
Latest(s) == IF queue[s] = <<>> THEN 0 ELSE queue[s][Len(queue[s])]

\* create(): with a cached connection the deferer is Promise.resolve(connection),
\* whose reaction runs as a microtask; without one it waits for db.connect().
Create == IF connection THEN "resolving" ELSE "opening"

\* transaction(writable): the new deferer either waits for the latest one of the
\* queue or runs create() at once.
Deferer(s) == IF Latest(s) # 0 THEN "chained" ELSE Create

\* The operation record of a call that goes through request(fn, {writable}).
Requested(s, kind, arg, method, target, w) ==
  [st |-> s, kind |-> kind, arg |-> arg, method |-> method, target |-> target,
   w |-> w, d |-> Deferer(s), after |-> Latest(s), tx |-> "none", rq |-> "none",
   p |-> "pending", res |-> Undef]

\* The operation record of a call that returns Promise.resolve().
Resolved(s, kind, arg) ==
  [st |-> s, kind |-> kind, arg |-> arg, method |-> "none", target |-> Undef,
   w |-> FALSE, d |-> "none", after |-> 0, tx |-> "none", rq |-> "none",
   p |-> "resolved", res |-> Undef]

\* request(fn, options): objectStore(writable) -> transaction(writable), which
\* pushes the deferer and, when create() ran without a connection, opens one.
request(s, kind, arg, method, target, w) ==
  /\ ops' = Append(ops, Requested(s, kind, arg, method, target, w))
  /\ queue' = [queue EXCEPT ![s] = Append(@, Len(ops) + 1)]
  /\ opens' = IF Deferer(s) = "opening" THEN Append(opens, Len(ops) + 1) ELSE opens
  /\ burst' = MicrotaskPending'
  /\ UNCHANGED <<connection, created, store, store0, nfail, scan, connections, manager, uses, engine>>

\* return Promise.resolve(): nothing but the caller's promise.
resolve(s, kind, arg) ==
  /\ ops' = Append(ops, Resolved(s, kind, arg))
  /\ UNCHANGED <<queue, connection, opens, created, store, store0, nfail, scan, burst,
                 connections, manager, uses, engine>>

\* An array argument of fewer than two elements degrades to its first element.
Single(arg) == IF IsArray(arg) THEN First(arg) ELSE arg

\* An array argument of two or more elements goes to batch().
Batched(arg) == IsArray(arg) /\ Len(arg.items) >= 2

\* batch(fns, options): one transaction() for all the requests; the operation
\* record holds the targets of the requests, in the order of fns.
batch(s, kind, arg, targets, w) ==
  request(s, kind, arg, "batch", targets, w)

\* The keys that remove derives from the objects of an array.
KeysOf(arg) == Arr([n \in 1..Len(arg.items) |-> parse(arg.items[n], primaryKeyPath)])

\* add(obj) / put(obj): `if (!obj) return Promise.resolve()`.
WriteIsNoop(obj) == Falsy(obj)

\* delete that returns early on undefined only.
DeleteIsNoop_UndefinedOnly(key) == key = Undef

\* delete(key): `if (!key) return Promise.resolve()`.
DeleteIsNoop(key) == Falsy(key)

\* remove(obj): no-op on a falsy object and on a falsy primary key.
RemoveIsNoop(obj) == Falsy(obj) \/ Falsy(parse(obj, primaryKeyPath))

\* The arguments the caller passes.
\* a falsy value, an empty array, a record or key of every key value, and an
\* array of one element.
RecArgs(v) == {Undef, Arr(<<>>), Arr(<<Obj(Num(1), v)>>)} \cup {Obj(Num(k), v) : k \in KeyVals}
DeleteArgs == {Undef, Arr(<<>>), Arr(<<Num(1)>>)} \cup KeyArgs
GetArgs == {Undef} \cup KeyArgs

Add(s, arg) ==
  IF Batched(arg) THEN batch(s, "add", arg, arg, TRUE)
  ELSE IF WriteIsNoop(Single(arg))
    THEN resolve(s, "add", arg)
    ELSE request(s, "add", arg, "add", Single(arg), TRUE)

\* put that issues objectStore.add.
Put_IssuesAdd(s, arg) ==
  IF WriteIsNoop(Single(arg))
    THEN resolve(s, "put", arg)
    ELSE request(s, "put", arg, "add", Single(arg), TRUE)

Put(s, arg) ==
  IF Batched(arg) THEN batch(s, "put", arg, arg, TRUE)
  ELSE IF WriteIsNoop(Single(arg))
    THEN resolve(s, "put", arg)
    ELSE request(s, "put", arg, "put", Single(arg), TRUE)

Delete(s, arg) ==
  IF Batched(arg) THEN batch(s, "delete", arg, arg, TRUE)
  ELSE IF DeleteIsNoop(Single(arg))
    THEN resolve(s, "delete", arg)
    ELSE request(s, "delete", arg, "delete", Single(arg), TRUE)

\* remove(obj) derives the key and delegates to delete(key).
Remove(s, arg) ==
  IF Batched(arg) THEN batch(s, "remove", arg, KeysOf(arg), TRUE)
  ELSE IF RemoveIsNoop(Single(arg)) \/ DeleteIsNoop(parse(Single(arg), primaryKeyPath))
    THEN resolve(s, "remove", arg)
    ELSE request(s, "remove", arg, "delete", parse(Single(arg), primaryKeyPath), TRUE)

\* get(key): a single key goes to request() with no check of the key, an array
\* of any length to batch() in a readonly transaction.
Get(s, key) ==
  IF IsArray(key) THEN batch(s, "get", key, key, FALSE)
  ELSE request(s, "get", key, "get", key, FALSE)

Clear(s) ==
  request(s, "clear", Undef, "clear", Undef, TRUE)

\* The record { key, value } of a key-value store: the key at the primary key
\* path, the value in the other property.
KeyValue(k, v) == Obj(k, v)

\* setItem(key, value): store.put({ key, value }).
SetItem(s, key, value) == Put(s, KeyValue(key, value))

\* getItem(key): store.get(key).then(obj => obj && obj.value).
GetItem(s, key) ==
  request(s, "getItem", key, "get", key, FALSE)

\* removeItem(key): store.delete(key).
RemoveItem(s, key) == Delete(s, key)

\* count(): objectStore.count() in a readonly request.
Count(s) ==
  request(s, "count", Undef, "count", Undef, FALSE)

\* iterate(fn, options): cursor() -> objectStore(false) -> transaction(false),
\* and a promise that the cursor events settle.  The operation record holds
\* the direction of the cursor.
iterate(s, kind, direction) ==
  request(s, kind, Undef, "openCursor", [direction |-> direction], FALSE)

\* iterate(fn, { index, writable }) called with a callback of the caller: fn
\* deletes the record of the cursor when the scan is writable, and calls next()
\* until, at the record number stopAt, it calls stop() (never when stopAt is 0).
\* The index '' stands for no index: the cursor is opened on the store.
Iterate(s, index, writable, stopAt) ==
  request(s, "iterate", Undef, "openCursor",
          [direction |-> "next", index |-> index, stopAt |-> stopAt], writable)

\* each(fn) and reverse(fn): the caller's fn gets every record.
Each(s) == iterate(s, "each", "next")

Reverse(s) == iterate(s, "reverse", "prev")

\* keys() and all(): each() with a callback that collects.
Keys(s) == iterate(s, "keys", "next")

All(s) == iterate(s, "all", "next")

\* find(key, value): objectStore.index(key).get(value) in a readonly request.
Find(s, key, value) ==
  request(s, "find", value, "index.get", [index |-> key, value |-> value], FALSE)

----------------------------------------------------------------------------
\* Promise reactions (microtasks) of transaction() and request().

\* latest.then(() => create()) when latest is fulfilled: create() runs now.
ThenCreate(i) ==
  /\ ops[i].d = "chained"
  /\ ops[ops[i].after].d = "created"
  /\ ops' = [ops EXCEPT ![i].d = Create]
  /\ opens' = IF Create = "opening" THEN Append(opens, i) ELSE opens
  /\ burst' = FALSE
  /\ UNCHANGED <<queue, connection, created, store, store0, nfail, scan,
                 connections, manager, uses, engine>>

\* latest.then(() => create()) when latest is rejected: there is no rejection
\* handler, so the new deferer is rejected and create() never runs.
ThenRejected(i) ==
  /\ ops[i].d = "chained"
  /\ ops[ops[i].after].d = "failed"
  /\ ops' = [ops EXCEPT ![i].d = "failed"]
  /\ burst' = FALSE
  /\ UNCHANGED <<queue, connection, opens, created, store, store0, nfail, scan,
                 connections, manager, uses, engine>>

\* fn(objectStore) throws synchronously: the engine refuses an invalid key.
Throws(o) ==
  CASE o.method \in {"get", "delete"} -> ~ValidKey(o.target)
    [] o.method \in {"put", "add"} -> ~ValidKey(parse(o.target, primaryKeyPath))
    [] o.method = "index.get" -> o.target.index \notin IndexNames \/ ~IndexKey(o.target.value)
    [] OTHER -> FALSE

\* batch() with no fns: Promise.all([]) resolves with no request made.
NoRequest(o) == o.method = "batch" /\ Len(o.target.items) = 0

\* deferer.then((db) => ...): the connection is cached, the transaction is
\* created and its handlers set; then request()'s reaction issues fn(objectStore)
\* and batch()'s reaction every fn of fns.
\* A throw of fn leaves the transaction without any request.
CreateTx(i) ==
  /\ ops[i].d = "resolving"
  /\ ops[i].kind # "close"
  /\ connection' = TRUE
  /\ created' = Append(created, i)
  /\ ops' = [ops EXCEPT ![i].d = "created", ![i].tx = "active",
                        ![i].rq = IF Throws(ops[i]) THEN "threw"
                                  ELSE IF NoRequest(ops[i]) THEN "done" ELSE "pending",
                        ![i].p = IF NoRequest(ops[i]) THEN "resolved" ELSE @,
                        ![i].res = IF ops[i].method \in {"batch", "openCursor"}
                                     THEN Arr(<<>>) ELSE @]
  /\ burst' = FALSE
  /\ UNCHANGED <<queue, opens, store, store0, nfail, scan, connections, manager, uses, engine>>

\* deferer.then((db) => ...) when db.transaction(name, mode) throws: the
\* connection is cached already, the deferer is rejected, no handler is set.
CreateTxThrows(i) ==
  /\ ops[i].d = "resolving"
  /\ ops[i].kind # "close"
  /\ nfail < MaxFailures
  /\ nfail' = nfail + 1
  /\ connection' = TRUE
  /\ ops' = [ops EXCEPT ![i].d = "failed"]
  /\ burst' = FALSE
  /\ UNCHANGED <<queue, opens, created, store, store0, scan, connections, manager, uses, engine>>

----------------------------------------------------------------------------
\* Engine events (tasks).

\* db.connect(): request.onsuccess of the oldest open request.
OpenSuccess ==
  /\ ~MicrotaskPending
  /\ opens # <<>>
  /\ ops' = [ops EXCEPT ![Head(opens)].d = "resolving"]
  /\ opens' = Tail(opens)
  /\ connections' = connections \cup {Head(opens)}
  /\ UNCHANGED <<queue, connection, created, store, store0, nfail, scan, burst, manager, uses, engine>>

\* db.connect(): request.onerror of the oldest open request, which is
\* reject(modifyError(e)): the promise of connect() is rejected, unless
\* modifyError throws and leaves it pending for good.
OpenError ==
  /\ ~MicrotaskPending
  /\ opens # <<>>
  /\ nfail < MaxFailures
  /\ nfail' = nfail + 1
  /\ ops' = [ops EXCEPT ![Head(opens)].d =
                IF modifyError(ErrorEvent).t = "thrown" THEN "hung" ELSE "failed"]
  /\ opens' = Tail(opens)
  /\ UNCHANGED <<queue, connection, created, store, store0, scan, burst,
                 connections, manager, uses, engine>>

\* Position of call i in the creation order.
CreatedAt(i) == CHOOSE n \in 1..Len(created) : created[n] = i

\* The engine starts a transaction when no transaction created before it on
\* the same store, one of the two being readwrite, is still unfinished.
CanRun(i) ==
  \A n \in 1..(CreatedAt(i) - 1) :
    LET j == created[n] IN
      \/ ops[j].tx = "finished"
      \/ ops[j].st # ops[i].st
      \/ (~ops[i].w /\ ~ops[j].w)

\* The engine key of a request's target.
KeyOf(o) == IF o.method \in {"put", "add"} THEN parse(o.target, primaryKeyPath).v
                                           ELSE o.target.v

\* An effect in which clear leaves the record of the key 0.
Effect_ClearLeavesOne(o, recs) ==
  CASE o.method \in {"put", "add"} -> [recs EXCEPT ![KeyOf(o)] = o.target]
    [] o.method = "delete" -> [recs EXCEPT ![KeyOf(o)] = Undef]
    [] o.method = "clear" -> [k \in KeyVals |-> IF k = 0 THEN recs[k] ELSE Undef]
    [] OTHER -> recs

\* The store after the request of operation o has succeeded.
Effect(o, recs) ==
  CASE o.method \in {"put", "add"} -> [recs EXCEPT ![KeyOf(o)] = o.target]
    [] o.method = "delete" -> [recs EXCEPT ![KeyOf(o)] = Undef]
    [] o.method = "clear" -> [k \in KeyVals |-> Undef]
    [] OTHER -> recs

\* e.target.result of the request.
Result(o, recs) ==
  CASE o.method = "get" -> recs[KeyOf(o)]
    [] o.method \in {"put", "add"} -> parse(o.target, primaryKeyPath)
    [] o.method = "index.get" -> IndexGet(recs, o.target.index, o.target.value)
    [] o.method = "count" -> Num(Cardinality({k \in DOMAIN recs : recs[k] # Undef}))
    [] OTHER -> Undef

\* objectStore.add on a key that exists: ConstraintError.
Fails(o, recs) == o.method = "add" /\ recs[KeyOf(o)] # Undef

\* The reaction a facade method chains on the promise of request(): getItem
\* maps the record to `obj && obj.value`.
Then(o, result) ==
  IF o.kind = "getItem"
    THEN IF result = Undef THEN Undef ELSE Str(result.name)
    ELSE result

\* request.onsuccess: resolve(result).
RequestSuccess(i) ==
  /\ ~MicrotaskPending
  /\ ops[i].method \notin {"batch", "openCursor"}
  /\ ops[i].tx = "active" /\ ops[i].rq = "pending"
  /\ CanRun(i)
  /\ ~Fails(ops[i], store[ops[i].st])
  /\ store' = [store EXCEPT ![ops[i].st] = Effect(ops[i], @)]
  /\ ops' = [ops EXCEPT ![i].rq = "done", ![i].p = "resolved",
                        ![i].res = Then(ops[i], Result(ops[i], store[ops[i].st]))]
  /\ UNCHANGED <<queue, connection, opens, created, store0, nfail, scan, burst,
                 connections, manager, uses, engine>>

\* reject(modifyError(e)) in a handler of the error event e: the promise of the
\* operation is rejected with the tagged error, unless modifyError throws, which
\* ends the handler before reject is called.
Rejection(o, e) ==
  IF modifyError(e).t = "thrown" THEN o
  ELSE [o EXCEPT !.p = "rejected", !.res = modifyError(e)]

\* disconnect of transaction(): the handler of oncomplete, onabort and onerror.
disconnect(s) ==
  /\ connection' = FALSE
  /\ queue' = [queue EXCEPT ![s] = IF @ = <<>> THEN <<>> ELSE Tail(@)]

\* request.onerror: reject(modifyError(e)); the error event then bubbles to the
\* transaction (tx.onerror = disconnect) and the engine starts the abort, whether
\* the handler has thrown or not.
RequestError(i) ==
  /\ ~MicrotaskPending
  /\ ops[i].tx = "active" /\ ops[i].rq = "pending"
  /\ CanRun(i)
  /\ Fails(ops[i], store[ops[i].st])
  /\ ops' = [ops EXCEPT ![i] = [Rejection(@, ErrorEvent) EXCEPT !.rq = "done",
                                                                !.tx = "aborting"]]
  /\ disconnect(ops[i].st)
  /\ UNCHANGED <<opens, created, store, store0, nfail, scan, burst, connections, manager, uses, engine>>

\* tx.oncomplete: every request of the transaction is done (or none was made).
TxComplete(i) ==
  /\ ~MicrotaskPending
  /\ ops[i].tx = "active" /\ ops[i].rq \in {"done", "threw"}
  /\ CanRun(i)
  /\ ops' = [ops EXCEPT ![i].tx = "finished"]
  /\ disconnect(ops[i].st)
  /\ UNCHANGED <<opens, created, store, store0, nfail, scan, burst, connections, manager, uses, engine>>

\* The engine method of the requests of a batch that removes nothing.
ItemMethod_RemoveGets(kind) == IF kind = "remove" THEN "get" ELSE kind

\* The engine method of the requests of a batch: remove issues delete.
ItemMethod(kind) == IF kind = "remove" THEN "delete" ELSE kind

\* fns in the reverse order.
ItemAt_Backward(o, n) == o.target.items[Len(o.target.items) - n + 1]

\* The target of the n-th fn of fns.
ItemAt(o, n) == o.target.items[n]

\* The n-th request of a batch.
Item(o, n) == [method |-> ItemMethod(o.kind), target |-> ItemAt(o, n)]

\* request.onsuccess of the next request of a batch: its promise resolves;
\* with the last one Promise.all resolves to the results, in the order of fns.
BatchSuccess(i) ==
  /\ ~MicrotaskPending
  /\ ops[i].method = "batch"
  /\ ops[i].tx = "active" /\ ops[i].rq = "pending"
  /\ CanRun(i)
  /\ LET n == Len(ops[i].res.items) + 1
         it == Item(ops[i], n)
         recs == store[ops[i].st]
         last == n = Len(ops[i].target.items)
     IN /\ ~Fails(it, recs)
        /\ store' = [store EXCEPT ![ops[i].st] = Effect(it, @)]
        /\ ops' = [ops EXCEPT ![i].res = Arr(Append(@.items, Result(it, recs))),
                              ![i].rq = IF last THEN "done" ELSE @,
                              ![i].p = IF last THEN "resolved" ELSE @]
  /\ UNCHANGED <<queue, connection, opens, created, store0, nfail, scan, burst,
                 connections, manager, uses, engine>>

\* The store without the records the first n requests of a batch of adds put in.
Reverted(o, n, recs) ==
  [k \in DOMAIN recs |-> IF \E m \in 1..n : KeyOf(Item(o, m)) = k THEN Undef ELSE recs[k]]

\* request.onerror of the next request of a batch: Promise.all rejects; the
\* error event bubbles to the transaction (tx.onerror = disconnect) and the
\* engine aborts it, which reverts what its requests have written.
BatchError(i) ==
  /\ ~MicrotaskPending
  /\ ops[i].method = "batch"
  /\ ops[i].tx = "active" /\ ops[i].rq = "pending"
  /\ CanRun(i)
  /\ Fails(Item(ops[i], Len(ops[i].res.items) + 1), store[ops[i].st])
  /\ store' = [store EXCEPT ![ops[i].st] = Reverted(ops[i], Len(ops[i].res.items), @)]
  /\ ops' = [ops EXCEPT ![i] = [Rejection(@, ErrorEvent) EXCEPT !.rq = "done",
                                                                !.tx = "aborting"]]
  /\ disconnect(ops[i].st)
  /\ UNCHANGED <<opens, created, store0, nfail, scan, burst, connections, manager, uses, engine>>

\* The requests of an aborted transaction that were not served: each gets an
\* error event, which bubbles to the transaction.
Unserved(o) ==
  IF o.method = "batch" THEN Len(o.target.items) - Len(o.res.items) - 1 ELSE 0

\* this._queue.shift(), n times.
Shifted(q, n) == IF Len(q) <= n THEN <<>> ELSE SubSeq(q, n + 1, Len(q))

\* The events of an abort: an error event at every request not served
\* (tx.onerror) and the abort event (tx.onabort), each of which runs disconnect.
TxAbort(i) ==
  /\ ~MicrotaskPending
  /\ ops[i].tx = "aborting"
  /\ ops' = [ops EXCEPT ![i].tx = "finished"]
  /\ connection' = FALSE
  /\ queue' = [queue EXCEPT ![ops[i].st] = Shifted(@, Unserved(ops[i]) + 1)]
  /\ UNCHANGED <<opens, created, store, store0, nfail, scan, burst, connections, manager, uses, engine>>

\* The store descriptors: s1 keeps the primary key in the records, at
\* primaryKeyPath; s2 declares no primaryKeyPath and generates its keys.
StoreConfig(s) ==
  IF s = "s2" THEN [name |-> s, autoIncrement |-> TRUE]
              ELSE [name |-> s, primaryKeyPath |-> primaryKeyPath]

\* parse(obj, keyPath) of keys(): undefined when the path is undefined.
KeyAt(s, obj) ==
  IF "primaryKeyPath" \in DOMAIN StoreConfig(s)
    THEN parse(obj, StoreConfig(s).primaryKeyPath)
    ELSE Undef

\* The keys of the records of a store, in the order a cursor visits them.
RECURSIVE Cursor(_, _)
Cursor(K, direction) ==
  IF K = {} THEN <<>>
  ELSE LET k == IF direction = "prev" THEN CHOOSE m \in K : \A n \in K : n <= m
                                      ELSE CHOOSE m \in K : \A n \in K : m <= n
       IN <<k>> \o Cursor(K \ {k}, direction)

\* A cursor that takes no direction.
Visited_Forward(recs, direction) ==
  Cursor({k \in DOMAIN recs : recs[k] # Undef}, "next")

Visited(recs, direction) ==
  Cursor({k \in DOMAIN recs : recs[k] # Undef}, direction)

\* What the callback of the scan makes of cursor.value: keys() collects the
\* key parsed from it, all() the record, and for each() and reverse() the
\* caller's fn receives it.
Collected(o, obj) == IF o.kind = "keys" THEN KeyAt(o.st, obj) ELSE obj

\* The range of query: IDBKeyRange.lowerBound / upperBound / only, or undefined.
RangeOf(value, compare) ==
  CASE compare = ">" -> [lower |-> value, open |-> TRUE]
    [] compare = ">=" -> [lower |-> value, open |-> FALSE]
    [] compare = "<" -> [upper |-> value, open |-> TRUE]
    [] compare = "<=" -> [upper |-> value, open |-> FALSE]
    [] compare \in {"%", "!=", "in"} -> Undef
    [] OTHER -> [lower |-> value, upper |-> value, open |-> FALSE]

\* Key k lies in the range.
InRange(k, range) ==
  /\ "lower" \in DOMAIN range =>
       KeyLess(range.lower, k) \/ (~range.open /\ StrictEq(range.lower, k))
  /\ "upper" \in DOMAIN range =>
       KeyLess(k, range.upper) \/ (~range.open /\ StrictEq(range.upper, k))

\* The owner of the cursor: objectStore.index(index) when an index is given,
\* as iterate() can and query() does, the object store otherwise.
Owner(o) ==
  IF o.kind = "query" \/ (o.kind = "iterate" /\ o.target.index # "")
    THEN "index" ELSE "objectStore"

\* The record r comes after the record last in the index on keyPath.
After(r, last, keyPath) ==
  \/ KeyLess(Value(last, keyPath), Value(r, keyPath))
  \/ StrictEq(Value(last, keyPath), Value(r, keyPath)) /\ last.id.v < r.id.v

\* The primary keys of a sequence of records.
PrimaryKeysOf(items) == [n \in 1..Len(items) |-> items[n].id.v]

\* The keys of the records the cursor of operation o has yet to visit: those
\* that follow its position, in the order of its owner.  An index holds the
\* records that have a key at its key path, and the cursor of query() visits
\* those within its range.
Ahead(o, recs) ==
  IF o.kind \notin {"iterate", "query"}
    THEN LET keys == Visited(recs, o.target.direction)
         IN SubSeq(keys, Len(o.res.items) + 1, Len(keys))
  ELSE LET keyPath == IF Owner(o) = "index" THEN KeyPathOf(o.target.index)
                                           ELSE primaryKeyPath
           seen == o.res.items
           rest == {r \in Records(recs) :
                     /\ IndexKey(Value(r, keyPath))
                     /\ o.kind = "query" => InRange(Value(r, keyPath), o.target.range)
                     /\ seen # <<>> => After(r, seen[Len(seen)], keyPath)}
       IN PrimaryKeysOf(IndexOrder(rest, keyPath))

\* fn calls stop() at this record: the fn of the caller of iterate() at the
\* record number stopAt, the fn of some() at the record after its window.
Stops(o) == o.kind \in {"iterate", "some"} /\ Len(o.res.items) + 1 = o.target.stopAt

\* A scan whose fn deletes the record of the cursor, whatever the operation.
Touched_Always(o, recs, k) == [recs EXCEPT ![k] = Undef]

\* The store after fn has run on the record of key k: the fn of the caller of
\* iterate() calls cursor.delete() in a writable scan.
Touched(o, recs, k) ==
  IF o.kind = "iterate" /\ o.w THEN [recs EXCEPT ![k] = Undef] ELSE recs

\* The store with the records put back that the cursor of o has deleted:
\* what the abort of its transaction leaves.
Restored(o, recs) ==
  [k \in DOMAIN recs |->
     IF \E n \in 1..Len(o.res.items) : o.res.items[n].id.v = k
       THEN o.res.items[CHOOSE n \in 1..Len(o.res.items) : o.res.items[n].id.v = k]
       ELSE recs[k]]

\* stop(): owner.transaction.commit(); resolve().  An IDBIndex has no property
\* `transaction`: on an index the call throws a TypeError before resolve(), in
\* the handler of the success event, and the engine aborts the transaction.
Stopped(o) ==
  IF Owner(o) = "index" THEN [o EXCEPT !.rq = "done", !.tx = "aborting"]
                        ELSE [o EXCEPT !.rq = "done", !.p = "resolved"]

\* request.onsuccess with a cursor: onTouch -> fn(cursor, next, stop), which
\* takes cursor.value and calls next(), or calls stop().
CursorSuccess(i) ==
  /\ ~MicrotaskPending
  /\ ops[i].method = "openCursor"
  /\ ops[i].tx = "active" /\ ops[i].rq = "pending"
  /\ CanRun(i)
  /\ LET recs == store[ops[i].st]
         keys == Ahead(ops[i], recs)
         o == [ops[i] EXCEPT !.res = Arr(Append(@.items, Collected(ops[i], recs[keys[1]])))]
     IN /\ keys # <<>>
        /\ IF Stops(ops[i])
             THEN /\ ops' = [ops EXCEPT ![i] = Stopped(o)]
                  /\ store' = IF Stopped(o).tx = "aborting"
                                THEN [store EXCEPT ![ops[i].st] = Restored(ops[i], @)]
                                ELSE store
             ELSE /\ ops' = [ops EXCEPT ![i] = o]
                  /\ store' = [store EXCEPT ![ops[i].st] = Touched(ops[i], @, keys[1])]
  /\ UNCHANGED <<queue, connection, opens, created, store0, nfail, scan, burst,
                 connections, manager, uses, engine>>

\* request.onsuccess without a cursor: onDone -> resolve().
CursorEnd(i) ==
  /\ ~MicrotaskPending
  /\ ops[i].method = "openCursor"
  /\ ops[i].tx = "active" /\ ops[i].rq = "pending"
  /\ CanRun(i)
  /\ Ahead(ops[i], store[ops[i].st]) = <<>>
  /\ ops' = [ops EXCEPT ![i].rq = "done", ![i].p = "resolved"]
  /\ UNCHANGED <<queue, connection, opens, created, store, store0, nfail, scan, burst,
                 connections, manager, uses, engine>>

----------------------------------------------------------------------------
NoScan == [phase |-> "idle"]

\* The schema of the database is as declared: no upgrade is needed.
NoUpgrade == [phase |-> "idle"]

\* null, and the InDB instance the constructor leaves: `this.cache = {}` (no
\* facade under any name, 0) and `this.stores = stores`.
Null == [t |-> "null"]
Constructed(declared) ==
  [cache |-> [t |-> "obj", of |-> [s \in declared |-> 0]],
   stores |-> [t |-> "arr", names |-> declared]]

\* The records a store holds at first: under key k nothing or a record whose
\* id is k.
Contents == {recs \in [KeyVals -> {Obj(Num(k), "a") : k \in KeyVals} \cup {Undef}] :
               \A k \in KeyVals : recs[k] # Undef => recs[k].id = Num(k)}

Init ==
  /\ ops = <<>>
  /\ queue = [s \in Stores |-> <<>>]
  /\ connection = FALSE
  /\ opens = <<>>
  /\ created = <<>>
  /\ store0 \in [Stores -> Contents]
  /\ store = store0
  /\ nfail = 0
  /\ scan = NoScan
  /\ burst = FALSE
  /\ connections = {}
  /\ manager = Constructed(Stores)
  /\ uses = <<>>
  /\ engine = NoUpgrade

\* The caller can learn nothing more about operation o: its promise is settled,
\* or its transaction was never created, or its request was never issued, or
\* the handlers of its request have run.
Over(o) == o.p # "pending" \/ o.d \in {"failed", "hung"} \/ o.rq \in {"threw", "done"}

\* A caller that awaits each operation before it calls the next.
Awaited == Callable /\ Len(ops) < MaxCalls /\ \A i \in 1..Len(ops) : Over(ops[i])

\* A caller that issues operations without awaiting the earlier ones.
Unawaited == Callable /\ Len(ops) < MaxQueued

Microtask ==
  \/ \E i \in 1..Len(ops) : ThenCreate(i)
  \/ \E i \in 1..Len(ops) : ThenRejected(i)
  \/ \E i \in 1..Len(ops) : CreateTx(i)
  \/ \E i \in 1..Len(ops) : CreateTxThrows(i)

Engine ==
  \/ OpenSuccess
  \/ OpenError
  \/ \E i \in 1..Len(ops) : RequestSuccess(i)
  \/ \E i \in 1..Len(ops) : RequestError(i)
  \/ \E i \in 1..Len(ops) : TxComplete(i)
  \/ \E i \in 1..Len(ops) : TxAbort(i)

Next ==
  \/ Awaited /\ \E s \in Stores, arg \in RecArgs("b") : Add(s, arg)
  \/ Awaited /\ \E s \in Stores, arg \in RecArgs("b") : Put(s, arg)
  \/ Awaited /\ \E s \in Stores, arg \in DeleteArgs : Delete(s, arg)
  \/ Awaited /\ \E s \in Stores, arg \in RecArgs("a") : Remove(s, arg)
  \/ Awaited /\ \E s \in Stores, key \in GetArgs : Get(s, key)
  \/ Awaited /\ \E s \in Stores : Clear(s)
  \/ Microtask
  \/ Engine

Spec == Init /\ [][Next]_vars

\* The operations issued without awaiting: writes of one key.
QueuedObjs == {Obj(Num(1), v) : v \in Names}

NextQueued ==
  \/ Unawaited /\ \E s \in Stores : Add(s, Obj(Num(1), "a"))
  \/ Unawaited /\ \E s \in Stores, o \in QueuedObjs : Put(s, o)
  \/ Microtask
  \/ Engine

\* The store holds one record when the unawaited operations begin.
InitQueued ==
  /\ Init
  /\ store0 = [s \in Stores |-> [k \in KeyVals |-> IF k = 1 THEN Obj(Num(1), "a") ELSE Undef]]

SpecQueued == InitQueued /\ [][NextQueued]_vars

----------------------------------------------------------------------------
\* What a call means by the contract of the operations: the records of a store
\* after operation o, when the store held recs before it.
Applied(o, recs) ==
  LET x == Single(o.arg) IN
  CASE o.kind = "put" /\ x.t = "obj" -> [recs EXCEPT ![x.id.v] = x]
    [] o.kind = "add" /\ x.t = "obj" ->
         IF recs[x.id.v] = Undef THEN [recs EXCEPT ![x.id.v] = x] ELSE recs
    [] o.kind = "delete" /\ x.t = "num" -> [recs EXCEPT ![x.v] = Undef]
    [] o.kind = "remove" /\ x.t = "obj" -> [recs EXCEPT ![x.id.v] = Undef]
    [] o.kind = "clear" -> [k \in KeyVals |-> Undef]
    [] OTHER -> recs

\* The records of store s after the first n calls, applied one after the other.
RECURSIVE Sequential(_, _)
Sequential(s, n) ==
  IF n = 0 THEN store0[s]
  ELSE IF ops[n].st = s THEN Applied(ops[n], Sequential(s, n - 1))
  ELSE Sequential(s, n - 1)

\* Every operation is over (its promise has settled or can no longer settle)
\* and every transaction has finished.
Quiescent ==
  \A i \in 1..Len(ops) : Over(ops[i]) /\ ops[i].tx \in {"none", "finished"}

\* A readwrite transaction of call i that has been created and has not finished.
Unfinished(i) == ops[i].w /\ ops[i].tx \in {"active", "aborting"}

\* C1: two readwrite transactions created through one facade are never both
\* unfinished: the second is created only after the first has completed,
\* aborted or errored.
C1_OneWritableAtATime ==
  \A i, j \in 1..Len(ops) :
    (i # j /\ ops[i].st = ops[j].st) => ~(Unfinished(i) /\ Unfinished(j))

\* C2: writable calls issued without awaiting take effect in the order they
\* were issued: once everything has settled every put has resolved and the
\* store holds what the calls give when applied one after the other (the
\* database could be opened for every call).
C2_IssueOrderEffect ==
  (Quiescent /\ \A i \in 1..Len(ops) : ops[i].d \notin {"failed", "hung"}) =>
    /\ \A i \in 1..Len(ops) : ops[i].kind = "put" => ops[i].p = "resolved"
    /\ \A s \in Stores : store[s] = Sequential(s, Len(ops))

\* C3: the transactions of one facade are created in the order in which
\* transaction() was called.
C3_FifoCreation ==
  \A m, n \in 1..Len(created) :
    (m < n /\ ops[created[m]].st = ops[created[n]].st) => created[m] < created[n]

\* C4: a request that waits for the prior one goes on to create its own
\* transaction whether the prior one succeeded or failed: it is never rejected
\* while it waits.
C4_NextGoesOnAfterFailure ==
  [][\A i \in 1..Len(ops) :
       ops[i].d = "chained" => ops'[i].d \in {"chained", "opening", "resolving"}]_vars

\* C5: every engine failure during an operation (the connection cannot be
\* opened, creating the transaction throws, issuing the request throws, the
\* request errors) rejects the promise the operation returned.
C5_FailuresReject ==
  \A i \in 1..Len(ops) :
    (ops[i].d \in {"failed", "hung"} \/ ops[i].rq = "threw" \/ ops[i].tx = "aborting")
      => ops[i].p = "rejected"

\* The get of call j reads the primary key of record x in the store of call i.
GetsKeyOf(j, i, x) ==
  /\ ops[j].kind = "get" /\ ops[j].st = ops[i].st
  /\ ops[j].arg = parse(x, primaryKeyPath)
  /\ ops[j].p = "resolved"

\* Call i is `kind` of the record x (alone or in a one-element array) and resolved.
ResolvedOf(i, kind, x) ==
  /\ ops[i].kind = kind /\ Single(ops[i].arg) = x /\ x.t = "obj"
  /\ ops[i].p = "resolved"

\* C6: put(x) of a record with a primary key never rejects nor has its request
\* refused by the engine, and when it has resolved a following get of x's
\* primary key resolves to x, whether the key was absent or held another record
\* before.
C6_PutThenGet ==
  /\ \A i \in 1..Len(ops) :
       ops[i].kind = "put" => (ops[i].p # "rejected" /\ ops[i].tx # "aborting")
  /\ \A j \in 2..Len(ops) : \A x \in Objs :
       (ResolvedOf(j - 1, "put", x) /\ GetsKeyOf(j, j - 1, x)) => ops[j].res = x

\* A put has overwritten a different record and the get that followed returned
\* the new one.
C6_Witness ==
  \E x \in Objs :
    /\ Len(ops) = 2 /\ ResolvedOf(1, "put", x) /\ GetsKeyOf(2, 1, x)
    /\ store0[ops[1].st][x.id.v] \notin {Undef, x}
    /\ ops[2].res = x

\* An add resolved and the get that followed it returns the added record.
AddedIsRead ==
  \A j \in 2..Len(ops) : \A x \in Objs :
    (ResolvedOf(j - 1, "add", x) /\ GetsKeyOf(j, j - 1, x)) => ops[j].res = x

\* C7: add(x) rejects when a record with x's primary key exists, as soon as
\* the engine has answered its request, and leaves the store unchanged; when
\* the key is absent it resolves, stores x, and a following get returns x.
C7_AddContract ==
  [][/\ \A i \in 1..Len(ops) :
          (ops[i].kind = "add" /\ ops[i].p = "pending") =>
            LET x == Single(ops[i].arg)
                k == parse(x, primaryKeyPath).v
                s == ops[i].st
            IN /\ ops'[i].p = "rejected" => (store[s][k] # Undef /\ store' = store)
               /\ ops'[i].p = "resolved" => (store[s][k] = Undef /\ store'[s][k] = x)
               /\ (ops[i].rq = "pending" /\ ops'[i].rq = "done" /\ store[s][k] # Undef)
                    => ops'[i].p = "rejected"
     /\ AddedIsRead']_vars

\* Record x was stored when call i was made: by the put just before it, or it
\* is what the store held from the beginning.
StoredBefore(i, x) ==
  IF i = 1 THEN store0[ops[i].st][x.id.v] = x
  ELSE ResolvedOf(i - 1, "put", x) /\ ops[i - 1].st = ops[i].st

\* C8: for a stored record x, after remove(x) has resolved a following get of
\* x's primary key resolves to undefined, whatever the key value.
C8_RemoveThenGet ==
  \A j \in 2..Len(ops) : \A x \in Objs :
    (/\ ResolvedOf(j - 1, "remove", x)
     /\ StoredBefore(j - 1, x)
     /\ GetsKeyOf(j, j - 1, x)) => ops[j].res = Undef

\* The inputs of add, put, delete and remove that are no-ops: a falsy object
\* or key, an empty array, and for remove a record whose primary key is falsy.
EmptyInput(kind, arg) ==
  /\ kind \in {"add", "put", "delete", "remove"}
  /\ \/ Falsy(arg)
     \/ arg = Arr(<<>>)
     \/ kind = "remove" /\ arg.t = "obj" /\ Falsy(parse(arg, primaryKeyPath))

----------------------------------------------------------------------------
\* some(count, offset): a paged window, read with a cursor.  The scan runs in
\* one readonly transaction, obtained like that of any request.

Min(a, b) == IF a < b THEN a ELSE b

\* The records of a store with the keys K, in ascending key order: the order in
\* which a 'next' cursor visits them.
RECURSIVE Ascending(_)
Ascending(K) ==
  IF K = {} THEN <<>>
  ELSE LET k == CHOOSE m \in K : \A n \in K : m <= n
       IN <<Obj(Num(k), "a")>> \o Ascending(K \ {k})

\* A window that takes one record more.
SomeWindow_OneMore(count, offset) ==
  IF offset < 0
    THEN LET c == Min(count, -offset)
             start == -(offset + c)
         IN [start |-> start, end |-> start + c + 1, direction |-> "prev"]
    ELSE [start |-> offset, end |-> offset + count + 1, direction |-> "next"]

\* The bounds of the window: start, end, and the direction of the cursor.
\* A negative offset scans backward from the last record.
SomeWindow(count, offset) ==
  IF offset < 0
    THEN LET c == Min(count, -offset)
             start == -(offset + c)
         IN [start |-> start, end |-> start + c, direction |-> "prev"]
    ELSE [start |-> offset, end |-> offset + count, direction |-> "next"]

\* some(count, offset) on a store that holds the records `source`.
Some(source, count, offset) ==
  /\ scan.phase = "idle"
  /\ scan' = [phase |-> "open", source |-> source, count |-> count, offset |-> offset,
              window |-> SomeWindow(count, offset), i |-> 0, pos |-> 0,
              results |-> <<>>]
  /\ UNCHANGED <<ops, queue, connection, opens, created, store, store0, nfail, burst,
                 connections, manager, uses, engine>>

\* cursor.value at the n-th step of the scan.
CursorValue(sc, n) ==
  IF sc.window.direction = "prev" THEN sc.source[Len(sc.source) - n + 1]
                                  ELSE sc.source[n]

\* A reaction that leaves a backward scan in the order of the cursor.
SomeResolved_NoReverse(sc) ==
  [phase |-> "resolved", source |-> sc.source, count |-> sc.count, offset |-> sc.offset,
   out |-> sc.results]

\* The reaction to iterate's promise: a backward scan is reversed.
SomeResolved(sc) ==
  [phase |-> "resolved", source |-> sc.source, count |-> sc.count, offset |-> sc.offset,
   out |-> IF sc.offset < 0
             THEN [n \in 1..Len(sc.results) |-> sc.results[Len(sc.results) - n + 1]]
             ELSE sc.results]

\* request.onsuccess with a cursor: onTouch calls the callback of some(), which
\* skips the record, collects it, or stops the scan.
CursorTouch ==
  /\ scan.phase = "open"
  /\ scan.pos < Len(scan.source)
  /\ scan' = IF scan.i < scan.window.start
               THEN [scan EXCEPT !.i = @ + 1, !.pos = @ + 1]
             ELSE IF scan.i < scan.window.end
               THEN [scan EXCEPT !.i = @ + 1, !.pos = @ + 1,
                                 !.results = Append(@, CursorValue(scan, scan.pos + 1))]
             ELSE SomeResolved(scan)
  /\ UNCHANGED <<ops, queue, connection, opens, created, store, store0, nfail, burst,
                 connections, manager, uses, engine>>

\* request.onsuccess without a cursor: onDone resolves the scan.
CursorDone ==
  /\ scan.phase = "open"
  /\ scan.pos = Len(scan.source)
  /\ scan' = SomeResolved(scan)
  /\ UNCHANGED <<ops, queue, connection, opens, created, store, store0, nfail, burst,
                 connections, manager, uses, engine>>

InitScan ==
  /\ ops = <<>>
  /\ queue = [s \in Stores |-> <<>>]
  /\ connection = FALSE
  /\ opens = <<>>
  /\ created = <<>>
  /\ store0 = [s \in Stores |-> [k \in KeyVals |-> Undef]]
  /\ store = store0
  /\ nfail = 0
  /\ scan = NoScan
  /\ burst = FALSE
  /\ connections = {}
  /\ manager = Constructed(Stores)
  /\ uses = <<>>
  /\ engine = NoUpgrade

NextScan ==
  \/ \E K \in SUBSET (1..MaxRecords), count \in 0..MaxCount,
        offset \in (-MaxOffset)..MaxOffset : Some(Ascending(K), count, offset)
  \/ CursorTouch
  \/ CursorDone

SpecScan == InitScan /\ [][NextScan]_vars

\* C10: with count >= 0 and offset >= 0, some(count, offset) resolves to the
\* records at the forward positions offset .. offset+count-1 that exist, in
\* forward order: all().slice(offset, offset + count).
C10_SomeForward ==
  (scan.phase = "resolved" /\ scan.offset >= 0) =>
    scan.out = SubSeq(scan.source, scan.offset + 1,
                      Min(scan.offset + scan.count, Len(scan.source)))

\* some(2, 1) on three records has resolved to the second and the third.
C10_Witness ==
  /\ scan.phase = "resolved" /\ scan.count = 2 /\ scan.offset = 1
  /\ Len(scan.source) = 3
  /\ scan.out = <<scan.source[2], scan.source[3]>>

Max(a, b) == IF a > b THEN a ELSE b

\* The records of seq at the 0-indexed positions lo .. hi that exist.
Slice(seq, lo, hi) ==
  LET from == Max(lo, 0) + 1
      to == Min(hi + 1, Len(seq))
  IN IF to < from THEN <<>> ELSE SubSeq(seq, from, to)

\* C11: with count >= 1 and offset < 0, some(count, offset) resolves, in forward
\* order, to the records at the forward positions n+offset ..
\* n+offset+min(count,-offset)-1 that exist, n being the number of records.
C11_SomeBackward ==
  (scan.phase = "resolved" /\ scan.offset < 0 /\ scan.count >= 1) =>
    LET n == Len(scan.source)
        c == Min(scan.count, -scan.offset)
    IN /\ scan.out = Slice(scan.source, n + scan.offset, n + scan.offset + c - 1)
       /\ Len(scan.out) <= c

\* some(2, -3) on three records has resolved to the first and the second.
C11_Witness ==
  /\ scan.phase = "resolved" /\ scan.count = 2 /\ scan.offset = -3
  /\ Len(scan.source) = 3
  /\ scan.out = <<scan.source[1], scan.source[2]>>

----------------------------------------------------------------------------
\* first() and last(): some(1) and some(1, -1), reduced to items[0].

\* The records of a store with the keys K and the names f, in ascending key
\* order.
RECURSIVE AscendingOf(_, _)
AscendingOf(K, f) ==
  IF K = {} THEN <<>>
  ELSE LET k == CHOOSE m \in K : \A n \in K : m <= n
       IN <<Obj(Num(k), f[k])>> \o AscendingOf(K \ {k}, f)

\* Every content of a store of at most MaxRecords records.
Sources == {AscendingOf(K, f) : K \in SUBSET (1..MaxRecords), f \in [1..MaxRecords -> Names]}

first(source) == Some(source, 1, 0)

\* last() that asks for the window one record before the last.
last_OneBefore(source) == Some(source, 1, -2)

last(source) == Some(source, 1, -1)

\* .then(items => items[0]): undefined when the list is empty.
ItemsHead ==
  /\ scan.phase = "resolved"
  /\ scan' = [phase |-> "settled", source |-> scan.source, offset |-> scan.offset,
              value |-> IF Len(scan.out) = 0 THEN Undef ELSE scan.out[1]]
  /\ UNCHANGED <<ops, queue, connection, opens, created, store, store0, nfail, burst,
                 connections, manager, uses, engine>>

NextEnds ==
  \/ \E source \in Sources : first(source)
  \/ \E source \in Sources : last(source)
  \/ CursorTouch
  \/ CursorDone
  \/ ItemsHead

SpecEnds == InitScan /\ [][NextEnds]_vars

\* The records of a sequence.
Range(seq) == {seq[n] : n \in 1..Len(seq)}

----------------------------------------------------------------------------
\* select(...rules): a full forward scan, each record tested in memory.

\* Groups of one select call, conditions of one group, and records scanned.
MaxGroups == 2
MaxConditions == 2
MaxSelected == 2

\* a > b of two values: numbers compare by value, strings by code unit, and a
\* number never compares with a string that is not numeric.
Greater(a, b) ==
  \/ a.t = "num" /\ b.t = "num" /\ a.v > b.v
  \/ a.t = "str" /\ b.t = "str" /\ a.v = "b" /\ b.v = "a"

\* a.indexOf(b) > -1 of a string a of at most one character: the empty string
\* and a itself are the strings it contains, and no name holds a digit.
Contains(a, b) == b.t = "str" /\ (b.v = "" \/ a.v = b.v)

\* compareAandB(a, b, compare)
compareAandB(a, b, compare) ==
  IF a = Undef THEN FALSE
  ELSE CASE compare = ">" -> Greater(a, b)
         [] compare = ">=" -> Greater(a, b) \/ StrictEq(a, b)
         [] compare = "<" -> Greater(b, a)
         [] compare = "<=" -> Greater(b, a) \/ StrictEq(a, b)
         [] compare = "!=" -> ~StrictEq(a, b)
         [] compare = "%" -> a.t = "str" /\ Contains(a, b)
         [] compare = "in" -> b.t = "arr" /\ \E n \in 1..Len(b.items) : StrictEq(b.items[n], a)
         [] OTHER -> StrictEq(a, b)

\* determine in which every optional condition has to hold.
determine_AllOptional(obj, and_conditions, or_conditions) ==
  IF Len(and_conditions) = 0 /\ Len(or_conditions) = 0 THEN FALSE
  ELSE IF \E n \in 1..Len(and_conditions) :
            ~compareAandB(Value(obj, and_conditions[n].keyPath),
                          and_conditions[n].value, and_conditions[n].compare)
    THEN FALSE
  ELSE \A n \in 1..Len(or_conditions) :
         compareAandB(Value(obj, or_conditions[n].keyPath),
                      or_conditions[n].value, or_conditions[n].compare)

\* determine(obj, and_conditions, or_conditions)
determine(obj, and_conditions, or_conditions) ==
  IF Len(and_conditions) = 0 /\ Len(or_conditions) = 0 THEN FALSE
  ELSE IF \E n \in 1..Len(and_conditions) :
            ~compareAandB(Value(obj, and_conditions[n].keyPath),
                          and_conditions[n].value, and_conditions[n].compare)
    THEN FALSE
  ELSE IF Len(or_conditions) = 0 THEN TRUE
  ELSE \E n \in 1..Len(or_conditions) :
         compareAandB(Value(obj, or_conditions[n].keyPath),
                      or_conditions[n].value, or_conditions[n].compare)

\* { keyPath, value, compare } of the conditions of a group, in their order.
Resolved_(conditions) ==
  [n \in 1..Len(conditions) |->
     [keyPath |-> KeyPathOf(conditions[n].key), value |-> conditions[n].value,
      compare |-> conditions[n].compare]]

\* groups: [and_conditions, or_conditions] of every rule.
GroupsOf(rules) ==
  [g \in 1..Len(rules) |->
     [and_conditions |-> Resolved_(SelectSeq(rules[g], LAMBDA c : ~c.optional)),
      or_conditions |-> Resolved_(SelectSeq(rules[g], LAMBDA c : c.optional))]]

\* isOk(obj)
isOk(obj, groups) ==
  \E g \in 1..Len(groups) :
    determine(obj, groups[g].and_conditions, groups[g].or_conditions)

\* The conditions a caller writes: on the primary key, on a declared index, on
\* a literal property path, and on a property no record has.
Shapes == {[key |-> "id", value |-> Num(1), compare |-> ">"],
           [key |-> "byName", value |-> Str("a"), compare |-> "="],
           [key |-> "name", value |-> Str("a"), compare |-> "!="],
           [key |-> "age", value |-> Num(1), compare |-> "!="]}

Conditions == {[key |-> c.key, value |-> c.value, compare |-> c.compare, optional |-> o] :
                 c \in Shapes, o \in BOOLEAN}

\* The sequences over S of length at most n.
UpTo(S, n) == UNION {[1..m -> S] : m \in 0..n}

Rules == UpTo(UpTo(Conditions, MaxConditions), MaxGroups)

Selected == {AscendingOf(K, f) : K \in SUBSET (1..MaxSelected), f \in [1..MaxSelected -> Names]}

select(source, rules) ==
  /\ scan.phase = "idle"
  /\ scan' = [phase |-> "select", source |-> source, rules |-> rules,
              groups |-> GroupsOf(rules), pos |-> 0, results |-> <<>>]
  /\ UNCHANGED <<ops, queue, connection, opens, created, store, store0, nfail, burst,
                 connections, manager, uses, engine>>

\* request.onsuccess with a cursor: each() passes cursor.value to the callback
\* of select and continues the cursor.
SelectTouch ==
  /\ scan.phase = "select"
  /\ scan.pos < Len(scan.source)
  /\ LET obj == scan.source[scan.pos + 1] IN
       scan' = [scan EXCEPT !.pos = @ + 1,
                            !.results = IF isOk(obj, scan.groups) THEN Append(@, obj) ELSE @]
  /\ UNCHANGED <<ops, queue, connection, opens, created, store, store0, nfail, burst,
                 connections, manager, uses, engine>>

\* request.onsuccess without a cursor: the promise of each() resolves and
\* select returns the results.
SelectDone ==
  /\ scan.phase = "select"
  /\ scan.pos = Len(scan.source)
  /\ scan' = [phase |-> "selected", source |-> scan.source, rules |-> scan.rules,
              out |-> scan.results]
  /\ UNCHANGED <<ops, queue, connection, opens, created, store, store0, nfail, burst,
                 connections, manager, uses, engine>>

NextSelect ==
  \/ scan = NoScan /\ \E source \in Selected, rules \in Rules : select(source, rules)
  \/ SelectTouch
  \/ SelectDone

SpecSelect == InitScan /\ [][NextSelect]_vars

\* Condition c holds on record r: the value at its key path, the path of the
\* declared index that c.key names or else c.key itself, compares with c.value.
Holds(r, c) ==
  LET path == IF c.key = "byName" THEN "name" ELSE c.key
  IN compareAandB(Value(r, path), c.value, c.compare)

\* Record r satisfies group g.
Satisfies(r, g) ==
  /\ Len(g) > 0
  /\ \A n \in 1..Len(g) : ~g[n].optional => Holds(r, g[n])
  /\ \/ \A n \in 1..Len(g) : ~g[n].optional
     \/ \E n \in 1..Len(g) : g[n].optional /\ Holds(r, g[n])

\* C13: select(...groups) resolves to exactly the records, in forward order,
\* that satisfy some group: the group has a condition, every non-optional
\* condition of it holds, and it has no optional condition or one that holds.
C13_SelectGroups ==
  scan.phase = "selected" =>
    scan.out = SelectSeq(scan.source,
                         LAMBDA r : \E g \in 1..Len(scan.rules) : Satisfies(r, scan.rules[g]))

\* A select of two groups has resolved to the second of two records: the first
\* group has a required condition that fails on it and the second an optional
\* one that holds.
C13_Witness ==
  /\ scan.phase = "selected"
  /\ Len(scan.source) = 2 /\ scan.out = <<scan.source[2]>>
  /\ Len(scan.rules) = 2
  /\ Len(scan.rules[1]) = 2 /\ ~scan.rules[1][1].optional
  /\ ~Satisfies(scan.source[2], scan.rules[1])
  /\ Len(scan.rules[2]) = 2 /\ scan.rules[2][1].optional /\ scan.rules[2][2].optional
  /\ Holds(scan.source[2], scan.rules[2][1]) /\ ~Holds(scan.source[2], scan.rules[2][2])

----------------------------------------------------------------------------
\* query(key, value, compare): a cursor over an index, within a key range for
\* the ordering comparators and '=', filtered in memory for the others.

\* objectStore.index(key).openCursor(range): the records the cursor visits.
Entries(source, key, range) ==
  IndexOrder({r \in Range(source) : /\ IndexKey(Value(r, KeyPathOf(key)))
                                    /\ InRange(Value(r, KeyPathOf(key)), range)},
             KeyPathOf(key))

\* onTouch of query: whether the record is pushed to the results.
QueryKeeps(targetValue, value, compare) ==
  CASE compare = "!=" -> ~StrictEq(targetValue, value)
    [] compare = "%" -> targetValue.t = "str" /\ Contains(targetValue, value)
    [] compare = "in" -> value.t = "arr" /\ \E n \in 1..Len(value.items) :
                                               StrictEq(value.items[n], targetValue)
    [] OTHER -> TRUE

\* The arguments of query: every comparator with values of both key types, and
\* 'in' with an array and without one.
QueryArgs ==
  {[value |-> v, compare |-> c] :
     v \in {Num(1), Num(2), Str("a")}, c \in {">", ">=", "<", "<=", "=", "!="}}
  \cup {[value |-> v, compare |-> "%"] : v \in {Str("a"), Str(""), Num(1)}}
  \cup {[value |-> v, compare |-> "in"] : v \in {Arr(<<Num(1), Str("a")>>), Num(1)}}

query(source, key, value, compare) ==
  /\ scan.phase = "idle"
  /\ scan' = [phase |-> "query", source |-> source, key |-> key, value |-> value,
              compare |-> compare,
              entries |-> Entries(source, key, RangeOf(value, compare)),
              pos |-> 0, results |-> <<>>]
  /\ UNCHANGED <<ops, queue, connection, opens, created, store, store0, nfail, burst,
                 connections, manager, uses, engine>>

\* request.onsuccess with a cursor: onTouch tests cursor.value and continues.
QueryTouch ==
  /\ scan.phase = "query"
  /\ scan.pos < Len(scan.entries)
  /\ LET targetObj == scan.entries[scan.pos + 1]
         targetValue == Value(targetObj, KeyPathOf(scan.key))
     IN scan' = [scan EXCEPT !.pos = @ + 1,
                             !.results = IF QueryKeeps(targetValue, scan.value, scan.compare)
                                           THEN Append(@, targetObj) ELSE @]
  /\ UNCHANGED <<ops, queue, connection, opens, created, store, store0, nfail, burst,
                 connections, manager, uses, engine>>

\* request.onsuccess without a cursor: onDone resolves the results.
QueryDone ==
  /\ scan.phase = "query"
  /\ scan.pos = Len(scan.entries)
  /\ scan' = [phase |-> "queried", source |-> scan.source, key |-> scan.key,
              value |-> scan.value, compare |-> scan.compare, out |-> scan.results]
  /\ UNCHANGED <<ops, queue, connection, opens, created, store, store0, nfail, burst,
                 connections, manager, uses, engine>>

NextQuery ==
  \/ scan = NoScan /\ \E source \in Sources, n \in 1..Len(indexes), a \in QueryArgs :
                         query(source, indexes[n].name, a.value, a.compare)
  \/ QueryTouch
  \/ QueryDone

SpecQuery == InitScan /\ [][NextQuery]_vars

\* k satisfies the comparator against value.
Satisfied(k, value, compare) ==
  CASE compare = ">" -> Greater(k, value)
    [] compare = ">=" -> Greater(k, value) \/ StrictEq(k, value)
    [] compare = "<" -> Greater(value, k)
    [] compare = "<=" -> Greater(value, k) \/ StrictEq(k, value)
    [] compare = "=" -> StrictEq(k, value)
    [] compare = "!=" -> ~StrictEq(k, value)
    [] compare = "%" -> k.t = "str" /\ Contains(k, value)
    [] compare = "in" -> value.t = "arr" /\ \E n \in 1..Len(value.items) :
                                               StrictEq(value.items[n], k)

\* The key path of the declared index named key.
DeclaredKeyPath(key) == CASE key = "byName" -> "name" [] OTHER -> key

\* C14: query(indexName, value, compare) resolves to exactly the records whose
\* value k at the key path of the index is defined and satisfies the
\* comparator against value.
C14_QueryComparators ==
  scan.phase = "queried" =>
    /\ Range(scan.out) =
         {r \in Range(scan.source) :
            LET k == Value(r, DeclaredKeyPath(scan.key))
            IN k # Undef /\ Satisfied(k, scan.value, scan.compare)}
    /\ Len(scan.out) = Cardinality(Range(scan.out))

----------------------------------------------------------------------------
\* find(key, value) by a caller that awaits each call: on a declared index
\* with and without a match, and on a name that is not an index of the store.

FindNames == IndexNames \cup {"color"}
FindValues == {Num(1), Str("a"), Str("b")}

NextFind ==
  \/ Awaited /\ \E s \in Stores, key \in FindNames, value \in FindValues : Find(s, key, value)
  \/ \E i \in 1..Len(ops) : ThenCreate(i)
  \/ \E i \in 1..Len(ops) : CreateTx(i)
  \/ OpenSuccess
  \/ \E i \in 1..Len(ops) : RequestSuccess(i)
  \/ \E i \in 1..Len(ops) : TxComplete(i)

SpecFind == Init /\ [][NextFind]_vars

\* The reaction of request() that issues the request has run for call i.
Issued(i) == ops[i].rq \in {"done", "threw"}

\* C15: find(indexName, value) resolves to a record whose index key equals
\* value when one exists, and to undefined when no record matches and when
\* indexName is not an index of the store.
C15_FindOrUndefined ==
  \A i \in 1..Len(ops) :
    (ops[i].kind = "find" /\ Issued(i)) =>
      LET key == ops[i].target.index
          value == ops[i].target.value
          hits == IF key \in IndexNames
                    THEN {r \in Records(store[ops[i].st]) :
                            StrictEq(Value(r, KeyPathOf(key)), value)}
                    ELSE {}
      IN /\ ops[i].p = "resolved"
         /\ IF hits = {} THEN ops[i].res = Undef ELSE ops[i].res \in hits

----------------------------------------------------------------------------
\* Array arguments, by a caller that awaits each call: batches of two
\* elements on two keys or on one, arrays of one element, and the empty array.

MaxBatches == 2

BatchRecs == {Arr(<<Obj(Num(0), "b"), Obj(Num(1), "b")>>),
              Arr(<<Obj(Num(1), "a"), Obj(Num(1), "b")>>),
              Arr(<<Obj(Num(1), "b")>>)}

BatchKeys == {Arr(<<Num(0), Num(1)>>), Arr(<<Num(1), Num(0)>>), Arr(<<Num(1)>>), Arr(<<>>)}

AwaitedBatch ==
  Callable /\ Len(ops) < MaxBatches /\ \A i \in 1..Len(ops) : Over(ops[i])

NextBatch ==
  \/ AwaitedBatch /\ \E s \in Stores, arg \in BatchRecs : Add(s, arg)
  \/ AwaitedBatch /\ \E s \in Stores, arg \in BatchRecs : Put(s, arg)
  \/ AwaitedBatch /\ \E s \in Stores, arg \in BatchKeys : Delete(s, arg)
  \/ AwaitedBatch /\ \E s \in Stores, arg \in BatchRecs : Remove(s, arg)
  \/ AwaitedBatch /\ \E s \in Stores, arg \in BatchKeys : Get(s, arg)
  \/ \E i \in 1..Len(ops) : ThenCreate(i)
  \/ \E i \in 1..Len(ops) : CreateTx(i)
  \/ OpenSuccess
  \/ \E i \in 1..Len(ops) : RequestSuccess(i)
  \/ \E i \in 1..Len(ops) : RequestError(i)
  \/ \E i \in 1..Len(ops) : BatchSuccess(i)
  \/ \E i \in 1..Len(ops) : BatchError(i)
  \/ \E i \in 1..Len(ops) : TxComplete(i)
  \/ \E i \in 1..Len(ops) : TxAbort(i)

SpecBatch == Init /\ [][NextBatch]_vars

\* C16: get(keys) with an array of n keys does all its lookups in a single
\* readonly transaction and resolves to a list of length n whose i-th element
\* is the record stored under keys[i], or undefined when there is none.
C16_GetMany ==
  \A i \in 1..Len(ops) :
    (ops[i].kind = "get" /\ IsArray(ops[i].arg)) =>
      /\ ops[i].method = "batch" /\ ~ops[i].w
      /\ Cardinality({n \in 1..Len(created) : created[n] = i}) <= 1
      /\ ops[i].p # "rejected"
      /\ ops[i].p = "resolved" =>
           /\ ops[i].tx # "none"
           /\ Len(ops[i].res.items) = Len(ops[i].arg.items)
           /\ i = Len(ops) =>
                \A n \in 1..Len(ops[i].arg.items) :
                  ops[i].res.items[n] = store[ops[i].st][ops[i].arg.items[n].v]

\* get([1, 0]) has resolved to the record of key 1 and undefined.
C16_Witness ==
  \E i \in 1..Len(ops) :
    /\ ops[i].kind = "get" /\ ops[i].arg = Arr(<<Num(1), Num(0)>>)
    /\ ops[i].p = "resolved"
    /\ ops[i].res = Arr(<<Obj(Num(1), "b"), Undef>>)

\* What one element of a write means: put and add store it, delete and remove
\* take the record of its key away.
ApplyOne(kind, x, recs) ==
  CASE kind \in {"put", "add"} /\ x.t = "obj" -> [recs EXCEPT ![x.id.v] = x]
    [] kind = "delete" /\ x.t = "num" -> [recs EXCEPT ![x.v] = Undef]
    [] kind = "remove" /\ x.t = "obj" -> [recs EXCEPT ![x.id.v] = Undef]
    [] OTHER -> recs

\* The first n elements applied one after the other.
RECURSIVE ApplyAll(_, _, _, _)
ApplyAll(kind, items, n, recs) ==
  IF n = 0 THEN recs ELSE ApplyOne(kind, items[n], ApplyAll(kind, items, n - 1, recs))

\* The elements of an argument.
Elements(arg) == IF IsArray(arg) THEN arg.items ELSE <<arg>>

\* The records of store s before call i: what the resolved calls before it
\* mean, a rejected call leaving nothing.
RECURSIVE Before(_, _)
Before(s, i) ==
  IF i = 1 THEN store0[s]
  ELSE IF ops[i - 1].st = s /\ ops[i - 1].p = "resolved"
    THEN ApplyAll(ops[i - 1].kind, Elements(ops[i - 1].arg),
                  Len(Elements(ops[i - 1].arg)), Before(s, i - 1))
  ELSE Before(s, i - 1)

Writes == {"add", "put", "delete", "remove"}

\* C17: add, put, delete and remove with an array of two or more elements
\* issue one request per element inside exactly one readwrite transaction
\* (one queue entry), and once the call has resolved every element has been
\* applied; with an array of one element they behave as the call with that
\* element.
C17_BatchWrites ==
  \A i \in 1..Len(ops) :
    /\ (ops[i].kind \in Writes /\ Batched(ops[i].arg)) =>
         /\ ops[i].method = "batch" /\ ops[i].w
         /\ Len(ops[i].target.items) = Len(ops[i].arg.items)
         /\ Cardinality({n \in 1..Len(created) : created[n] = i}) <= 1
         /\ Cardinality({n \in 1..Len(queue[ops[i].st]) : queue[ops[i].st][n] = i}) <= 1
         /\ ops[i].p = "resolved" =>
              /\ Len(ops[i].res.items) = Len(ops[i].arg.items)
              /\ i = Len(ops) =>
                   store[ops[i].st] = ApplyAll(ops[i].kind, ops[i].arg.items,
                                               Len(ops[i].arg.items), Before(ops[i].st, i))
    /\ (ops[i].kind \in Writes /\ IsArray(ops[i].arg) /\ Len(ops[i].arg.items) = 1) =>
         /\ ops[i].method = IF ops[i].kind = "remove" THEN "delete" ELSE ops[i].kind
         /\ ops[i].target = IF ops[i].kind = "remove" THEN ops[i].arg.items[1].id
                                                      ELSE ops[i].arg.items[1]
         /\ (ops[i].p = "resolved" /\ i = Len(ops)) =>
              store[ops[i].st] = ApplyOne(ops[i].kind, ops[i].arg.items[1], Before(ops[i].st, i))

\* remove of two records has resolved on a store that held both, and the store
\* is empty.
C17_Witness ==
  /\ Len(ops) = 1
  /\ ops[1].kind = "remove" /\ Batched(ops[1].arg) /\ ops[1].p = "resolved"
  /\ \A k \in KeyVals : store0[ops[1].st][k] # Undef /\ store[ops[1].st][k] = Undef

----------------------------------------------------------------------------
\* The reads of whole stores, and clear(), by a caller that awaits each call,
\* on a database of two stores.

MaxReads == 2

TwoStores == {"s1", "s2"}

\* The records of s2: values that carry no key.
Keyless == [KeyVals -> {Obj(Undef, "a"), Undef}]

InitRead ==
  /\ ops = <<>>
  /\ queue = [s \in TwoStores |-> <<>>]
  /\ connection = FALSE
  /\ opens = <<>>
  /\ created = <<>>
  /\ store0 \in {f \in [TwoStores -> Contents \cup Keyless] :
                   f["s1"] \in Contents /\ f["s2"] \in Keyless}
  /\ store = store0
  /\ nfail = 0
  /\ scan = NoScan
  /\ burst = FALSE
  /\ connections = {}
  /\ manager = Constructed(TwoStores)
  /\ uses = <<>>
  /\ engine = NoUpgrade

AwaitedRead ==
  Callable /\ Len(ops) < MaxReads /\ \A i \in 1..Len(ops) : Over(ops[i])

NextRead ==
  \/ AwaitedRead /\ \E s \in TwoStores : Keys(s)
  \/ AwaitedRead /\ \E s \in TwoStores : All(s)
  \/ AwaitedRead /\ \E s \in TwoStores : Count(s)
  \/ AwaitedRead /\ \E s \in TwoStores : Each(s)
  \/ AwaitedRead /\ \E s \in TwoStores : Reverse(s)
  \/ AwaitedRead /\ \E s \in TwoStores : Clear(s)
  \/ \E i \in 1..Len(ops) : ThenCreate(i)
  \/ \E i \in 1..Len(ops) : CreateTx(i)
  \/ OpenSuccess
  \/ \E i \in 1..Len(ops) : RequestSuccess(i)
  \/ \E i \in 1..Len(ops) : CursorSuccess(i)
  \/ \E i \in 1..Len(ops) : CursorEnd(i)
  \/ \E i \in 1..Len(ops) : TxComplete(i)

SpecRead == InitRead /\ [][NextRead]_vars

\* No call has written to store s: it holds what it held at first.
Untouched(s) == \A i \in 1..Len(ops) : ops[i].st = s => ~ops[i].w

\* The primary keys of the records of a store, ascending.
PrimaryKeys(recs) == Cursor({k \in DOMAIN recs : recs[k] # Undef}, "next")

\* C18: on a quiescent store keys() resolves to the primary keys of all records
\* in ascending order, all() to the records in the same order, and count() to
\* the length of both, for every key configuration of the store.
C18_KeysAllCount ==
  \A i \in 1..Len(ops) :
    (ops[i].p = "resolved" /\ Untouched(ops[i].st)) =>
      LET recs == store0[ops[i].st]
          keys == PrimaryKeys(recs)
      IN /\ ops[i].kind = "keys" =>
              ops[i].res.items = [n \in 1..Len(keys) |-> Num(keys[n])]
         /\ ops[i].kind = "all" =>
              ops[i].res.items = [n \in 1..Len(keys) |-> recs[keys[n]]]
         /\ ops[i].kind = "count" => ops[i].res = Num(Len(keys))

\* The records of a store in the order of a cursor of the direction.
InOrder(recs, direction) ==
  LET keys == Cursor({k \in DOMAIN recs : recs[k] # Undef}, direction)
  IN [n \in 1..Len(keys) |-> recs[keys[n]]]

\* C19: each(fn) invokes fn exactly once for every record in ascending
\* primary-key order and reverse(fn) in descending order, and the promise
\* resolves only after fn was invoked for the last record of the scan.
C19_EachReverse ==
  \A i \in 1..Len(ops) :
    (ops[i].kind \in {"each", "reverse"} /\ ops[i].tx # "none" /\ Untouched(ops[i].st)) =>
      LET all == InOrder(store0[ops[i].st], IF ops[i].kind = "reverse" THEN "prev" ELSE "next")
          calls == ops[i].res.items
      IN /\ Len(calls) <= Len(all)
         /\ calls = SubSeq(all, 1, Len(calls))
         /\ ops[i].p = "resolved" => calls = all
         /\ ops[i].p # "rejected"

\* reverse(fn) has resolved on the store s1 of two records: fn got the record
\* of the key 1 and then that of the key 0.
C19_Witness ==
  \E i \in 1..Len(ops) :
    /\ ops[i].kind = "reverse" /\ ops[i].st = "s1" /\ ops[i].p = "resolved"
    /\ ops[i].res.items = <<Obj(Num(1), "a"), Obj(Num(0), "a")>>

\* C20: after clear() has resolved, count() resolves to 0 and all() to the
\* empty list, whatever the store held, and the records of the other stores
\* of the database are unchanged.
C20_Clear ==
  /\ \A i \in 1..Len(ops) : \A j \in (i + 1)..Len(ops) :
       (/\ ops[i].kind = "clear" /\ ops[i].p = "resolved"
        /\ ops[j].st = ops[i].st /\ ops[j].p = "resolved") =>
         /\ ops[j].kind = "count" => ops[j].res = Num(0)
         /\ ops[j].kind = "all" => ops[j].res = Arr(<<>>)
  /\ \A i \in 1..Len(ops) : ops[i].kind = "clear" => ops[i].p # "rejected"
  /\ \A s \in TwoStores : Untouched(s) => store[s] = store0[s]

\* clear() has resolved on the store s1 of two records, count() after it has
\* resolved to 0, and the store s2 holds its two records.
C20_Witness ==
  /\ Len(ops) = 2
  /\ ops[1].kind = "clear" /\ ops[1].st = "s1" /\ ops[1].p = "resolved"
  /\ \A k \in KeyVals : store0["s1"][k] # Undef /\ store["s2"][k] # Undef
  /\ ops[2].kind = "count" /\ ops[2].st = "s1" /\ ops[2].res = Num(0)
  /\ ops[2].p = "resolved"

----------------------------------------------------------------------------
\* The key-value facade, by a caller that awaits each call.

MaxItems == 3

AwaitedItem ==
  Callable /\ Len(ops) < MaxItems /\ \A i \in 1..Len(ops) : Over(ops[i])

NextKv ==
  \/ AwaitedItem /\ \E s \in Stores, k \in KeyArgs, v \in Names : SetItem(s, k, v)
  \/ AwaitedItem /\ \E s \in Stores, k \in KeyArgs : GetItem(s, k)
  \/ AwaitedItem /\ \E s \in Stores, k \in KeyArgs : RemoveItem(s, k)
  \/ \E i \in 1..Len(ops) : ThenCreate(i)
  \/ \E i \in 1..Len(ops) : CreateTx(i)
  \/ OpenSuccess
  \/ \E i \in 1..Len(ops) : RequestSuccess(i)
  \/ \E i \in 1..Len(ops) : TxComplete(i)

SpecKv == Init /\ [][NextKv]_vars

\* C21: on a key-value facade, after setItem(k, v) has resolved getItem(k)
\* resolves to v, and after removeItem(k) has resolved getItem(k) resolves to
\* undefined, for every key and value.
C21_KeyValue ==
  \A j \in 2..Len(ops) :
    (/\ ops[j].kind = "getItem" /\ Over(ops[j])
     /\ ops[j - 1].p = "resolved" /\ ops[j - 1].arg \in KeyArgs \cup Objs
     /\ parse(ops[j - 1].arg, primaryKeyPath) = ops[j].arg \/ ops[j - 1].arg = ops[j].arg) =>
      /\ ops[j].p = "resolved"
      /\ ops[j - 1].kind = "put" => ops[j].res = Str(ops[j - 1].arg.name)
      /\ ops[j - 1].kind = "delete" => ops[j].res = Undef

----------------------------------------------------------------------------
\* The manager: InDB.use and InDB.close.

\* The facades use() has returned so far: they are numbered as constructed.
Facades == {uses[n].ret : n \in 1..Len(uses)} \ {0}

\* A use() that constructs a facade at every call.
use_Uncached(name) ==
  IF manager.stores.t = "null" THEN 0
  ELSE IF name \notin manager.stores.names THEN 0
  ELSE Cardinality(Facades) + 1

\* A use() that makes a facade of any name.
use_Undeclared(name) ==
  IF manager.stores.t = "null" THEN 0
  ELSE IF name \in manager.stores.names /\ manager.cache.of[name] # 0
    THEN manager.cache.of[name]
    ELSE Cardinality(Facades) + 1

\* What use(name) returns: 0 when it throws (this.stores is null, or no store
\* of that name is declared), the cached facade of the name when there is one,
\* a new facade otherwise.
use(name) ==
  IF manager.stores.t = "null" THEN 0
  ELSE IF name \notin manager.stores.names THEN 0
  ELSE IF manager.cache.of[name] # 0 THEN manager.cache.of[name]
  ELSE Cardinality(Facades) + 1

\* use(name), with `this.cache[name] = store` when it returned a facade.
Use(name) ==
  /\ uses' = Append(uses, [name |-> name, at |-> Len(ops), ret |-> use(name)])
  /\ manager' = IF use(name) # 0 /\ name \in DOMAIN manager.cache.of
                  THEN [manager EXCEPT !.cache.of[name] = use(name)]
                  ELSE manager
  /\ UNCHANGED <<ops, queue, connection, opens, created, store, store0, nfail, scan, burst,
                 connections, engine>>

\* The caller holds a facade of store s.
Held(s) == \E n \in 1..Len(uses) : uses[n].name = s /\ uses[n].ret # 0

\* The operation record of close(): it waits for a connection of its own.
Closing ==
  [st |-> "", kind |-> "close", arg |-> Undef, method |-> "none", target |-> Undef,
   w |-> FALSE, d |-> "opening", after |-> 0, tx |-> "none", rq |-> "none",
   p |-> "pending", res |-> Undef]

\* close(): cache and stores are set to null, and connect() is called.
Close ==
  /\ manager' = [cache |-> Null, stores |-> Null]
  /\ ops' = Append(ops, Closing)
  /\ opens' = Append(opens, Len(ops) + 1)
  /\ burst' = MicrotaskPending'
  /\ UNCHANGED <<queue, connection, created, store, store0, nfail, scan, connections, uses, engine>>

\* connect().then((db) => { db.close() }): the connection that close() opened
\* is closed, and the promise of close() resolves.
CloseDb(i) ==
  /\ ops[i].kind = "close"
  /\ ops[i].d = "resolving"
  /\ connections' = connections \ {i}
  /\ ops' = [ops EXCEPT ![i].d = "closed", ![i].p = "resolved"]
  /\ burst' = FALSE
  /\ UNCHANGED <<queue, connection, opens, created, store, store0, nfail, scan, manager, uses, engine>>

\* A caller that awaits each call, on a manager of two stores.
MaxManaged == 3
MaxUses == 3
UseNames == TwoStores \cup {"s3"}

InitManager ==
  /\ InitRead
  /\ store0 = [s \in TwoStores |->
                 [k \in KeyVals |-> IF k = 1 THEN IF s = "s1" THEN Obj(Num(1), "a")
                                                            ELSE Obj(Undef, "a")
                                           ELSE Undef]]

AwaitedManager == Callable /\ \A i \in 1..Len(ops) : Over(ops[i])

NextManager ==
  \/ AwaitedManager /\ Len(uses) < MaxUses /\ \E name \in UseNames : Use(name)
  \/ AwaitedManager /\ Len(ops) < MaxManaged /\ Close
  \/ AwaitedManager /\ Len(ops) < MaxManaged /\ \E s \in TwoStores : Held(s) /\ Count(s)
  \/ AwaitedManager /\ Len(ops) < MaxManaged /\ \E s \in TwoStores : Held(s) /\ Clear(s)
  \/ \E i \in 1..Len(ops) : ThenCreate(i)
  \/ \E i \in 1..Len(ops) : CreateTx(i)
  \/ \E i \in 1..Len(ops) : CloseDb(i)
  \/ OpenSuccess
  \/ \E i \in 1..Len(ops) : RequestSuccess(i)
  \/ \E i \in 1..Len(ops) : TxComplete(i)

SpecManager == InitManager /\ [][NextManager]_vars

\* C22: after close() has resolved no data operation succeeds: an operation
\* called afterwards on a facade obtained before the close does not resolve,
\* and use() throws.
C22_ClosedForGood ==
  \A c \in 1..Len(ops) :
    (ops[c].kind = "close" /\ ops[c].p = "resolved") =>
      /\ \A j \in (c + 1)..Len(ops) : ops[j].kind # "close" => ops[j].p # "resolved"
      /\ \A n \in 1..Len(uses) : uses[n].at >= c => uses[n].ret = 0

----------------------------------------------------------------------------
\* The facades of two stores of one manager, by a caller that does not await.

MaxShared == 3

UnawaitedShared == Callable /\ Len(ops) < MaxShared

NextShared ==
  \/ UnawaitedShared /\ \E s \in TwoStores : Count(s)
  \/ UnawaitedShared /\ \E s \in TwoStores : Clear(s)
  \/ \E i \in 1..Len(ops) : ThenCreate(i)
  \/ \E i \in 1..Len(ops) : CreateTx(i)
  \/ OpenSuccess
  \/ \E i \in 1..Len(ops) : RequestSuccess(i)
  \/ \E i \in 1..Len(ops) : TxComplete(i)

SpecShared == InitManager /\ [][NextShared]_vars

\* C23: in every reachable state at most one connection opened on behalf of
\* the manager is open.
C23_OneConnection == Cardinality(connections) <= 1

\* C24: transaction() opens a connection only when the cached reference is
\* null, and the reference is not null while a transaction created on the
\* cached connection is active (looked at while the manager has opened one
\* connection only, so that every transaction was created on it).
C24_CachedWhileActive ==
  [][/\ Len(opens') > Len(opens) => ~connection
     /\ (Cardinality(connections') = 1 /\ \E i \in 1..Len(ops') : ops'[i].tx = "active")
          => connection']_vars

----------------------------------------------------------------------------
\* use() on the manager of SpecManager.

\* close() had not been called when the n-th use() was.
OpenAt(n) == \A c \in 1..uses[n].at : ops[c].kind # "close"

\* C25: while the manager has not been closed, use(name) of a declared store
\* returns a facade, two calls with the same name return the same facade, and
\* so no store name has more than one facade.
C25_OneFacadePerStore ==
  /\ \A n \in 1..Len(uses) :
       (uses[n].name \in TwoStores /\ OpenAt(n)) => uses[n].ret # 0
  /\ \A m, n \in 1..Len(uses) :
       (uses[m].name = uses[n].name /\ uses[m].name \in TwoStores /\ OpenAt(m) /\ OpenAt(n))
         => uses[m].ret = uses[n].ret
  /\ \A name \in UseNames :
       Cardinality({uses[n].ret : n \in {k \in 1..Len(uses) : uses[k].name = name}} \ {0}) <= 1

\* use('s1'), use('s2') and use('s1') again: the third call returned the facade
\* of the first, the second another one.
C25_Witness ==
  /\ Len(uses) = 3
  /\ uses[1].name = "s1" /\ uses[2].name = "s2" /\ uses[3].name = "s1"
  /\ uses[1].ret # 0 /\ uses[3].ret = uses[1].ret /\ uses[2].ret \notin {0, uses[1].ret}

\* C26: use(name) with a name that is not declared throws, makes no facade and
\* leaves the cache of the manager as it was.
C26_UndeclaredThrows ==
  [][(Len(uses') > Len(uses) /\ uses'[Len(uses')].name \notin TwoStores) =>
       /\ uses'[Len(uses')].ret = 0
       /\ Facades' = Facades
       /\ manager'.cache = manager.cache]_vars

\* use('s3') threw on a manager whose cache holds the facade of s1.
C26_Witness ==
  /\ Len(uses) >= 2
  /\ uses[1].name = "s1" /\ uses[1].ret # 0
  /\ uses[2].name = "s3" /\ uses[2].ret = 0
  /\ manager.cache.t = "obj" /\ manager.cache.of["s1"] = uses[1].ret

----------------------------------------------------------------------------
\* Error tagging.

\* The messages of the errors modifyError is given: up to two pieces of text.
Messages == {<<>>} \cup {<<a>> : a \in {Tag, "x"}} \cup {<<a, b>> : a, b \in {Tag, "x"}}

\* C30: modifyError(e) returns e with a message that carries the tag, the
\* prefix being added exactly when the tag is absent, so that tagging twice is
\* tagging once; and when the engine reports the error of a request the
\* promise of the operation is rejected with a tagged error.
C30_Tagged ==
  /\ \A m \in Messages :
       LET e == Error(m) IN
         /\ modifyError(e).t = "error" /\ HasTag(modifyError(e).message)
         /\ modifyError(e).message = IF HasTag(m) THEN m ELSE Prefix \o m
         /\ modifyError(modifyError(e)) = modifyError(e)
  /\ \A i \in 1..Len(ops) :
       (ops[i].rq = "done" /\ ops[i].p # "resolved") =>
         /\ ops[i].p = "rejected"
         /\ ops[i].res.t = "error" /\ HasTag(ops[i].res.message)

----------------------------------------------------------------------------
\* iterate() with a callback that stops, by a caller that awaits each call.

MaxIterations == 2
MaxStopAt == 2

\* No index, and the declared indexes.
IndexArgs == {""} \cup IndexNames

\* The stores hold records of the names a and b.
InitIterate ==
  /\ Init
  /\ \A st \in Stores : \A k \in KeyVals : store0[st][k] # Undef

AwaitedIterate ==
  Callable /\ Len(ops) < MaxIterations /\ \A i \in 1..Len(ops) : Over(ops[i])

NextIterate ==
  \/ AwaitedIterate /\ \E st \in Stores, index \in IndexArgs, w \in BOOLEAN,
                           stopAt \in 0..MaxStopAt : Iterate(st, index, w, stopAt)
  \/ \E i \in 1..Len(ops) : ThenCreate(i)
  \/ \E i \in 1..Len(ops) : CreateTx(i)
  \/ OpenSuccess
  \/ \E i \in 1..Len(ops) : CursorSuccess(i)
  \/ \E i \in 1..Len(ops) : CursorEnd(i)
  \/ \E i \in 1..Len(ops) : TxComplete(i)
  \/ \E i \in 1..Len(ops) : TxAbort(i)

SpecIterate == InitIterate /\ [][NextIterate]_vars

\* The records the callback of operation o has been called for.
CalledFor(o) == IF o.res.t = "arr" THEN o.res.items ELSE <<>>

\* C28: when the callback of iterate calls stop at a record it is not called
\* for any further record, the promise of iterate resolves, and the
\* transaction is committed: what a writable scan has deleted through the
\* cursor before it stays deleted; on the store and on an index alike.
C28_StopCommits ==
  \A i \in 1..Len(ops) :
    (ops[i].kind = "iterate" /\ ops[i].target.stopAt # 0) =>
      /\ Len(CalledFor(ops[i])) <= ops[i].target.stopAt
      /\ Len(CalledFor(ops[i])) = ops[i].target.stopAt =>
           /\ ops[i].p = "resolved"
           /\ ops[i].tx # "aborting"
           /\ ops[i].w => \A n \in 1..(ops[i].target.stopAt - 1) :
                            store[ops[i].st][CalledFor(ops[i])[n].id.v] = Undef

----------------------------------------------------------------------------
\* parse(obj, path) on nested values and paths of several segments.  A string
\* of a path or of a key is the sequence of its characters.

MaxPath == 3

Chars == {"a", "b", "0", ".", "[", "]"}
Separators == {".", "[", "]"}

\* An object with the given properties.
Object(props) == [t |-> "object", props |-> props]

\* path.toString().split(/\.|\[|\]/).filter(item => !!item)
RECURSIVE makeKeyChain(_)
makeKeyChain(path) ==
  IF path = <<>> THEN <<>>
  ELSE IF Head(path) \in Separators THEN makeKeyChain(Tail(path))
  ELSE LET n == CHOOSE m \in 1..Len(path) :
                  /\ \A k \in 1..m : path[k] \notin Separators
                  /\ m = Len(path) \/ path[m + 1] \in Separators
       IN <<SubSeq(path, 1, n)>> \o makeKeyChain(SubSeq(path, n + 1, Len(path)))

\* target has a property of the name key.
HasProperty(target, key) ==
  CASE target.t = "object" -> key \in DOMAIN target.props
    [] target.t = "arr" -> key = <<"0">> /\ Len(target.items) > 0
    [] target.t = "str" -> key = <<"0">> /\ Len(target.v) > 0
    [] OTHER -> FALSE

\* target[key]: a TypeError on null and undefined, the property when target
\* has it (a string has its characters), undefined otherwise.
Property(target, key) ==
  IF target.t \in {"null", "undefined"} THEN TypeError
  ELSE IF ~HasProperty(target, key) THEN Undef
  ELSE CASE target.t = "object" -> target.props[key]
         [] target.t = "arr" -> target.items[1]
         [] target.t = "str" -> Str(<<target.v[1]>>)

\* The loop of parse over the chain of keys.
RECURSIVE Descend(_, _)
Descend(target, chain) ==
  IF chain = <<>> THEN target
  ELSE LET next == Property(target, Head(chain))
       IN IF next.t \in {"thrown", "undefined"} THEN next
          ELSE Descend(next, Tail(chain))

\* parse(obj, path) of a path that is undefined, null or a string.
parseChain(obj, path) ==
  IF path.t \in {"undefined", "null"} THEN Undef
  ELSE IF makeKeyChain(path.v) = <<>> THEN obj
  ELSE Descend(obj, makeKeyChain(path.v))

\* The paths: undefined, null, and the strings of up to MaxPath characters.
Paths ==
  {Undef, Null} \cup {Str(p) : p \in UNION {[1..n -> Chars] : n \in 0..MaxPath}}

\* The values of the properties of a record: primitives, null, an array, and
\* objects of one property.
Leaves == {Undef, Null, Num(1), Str(<<"a">>)}
Nests == Leaves \cup {Arr(<<Num(1)>>)} \cup {Object([k \in {<<"a">>} |-> v]) : v \in Leaves}
                \cup {Object(<<>>)}

\* The records: with or without a property a, with or without a property b.
Nested ==
  {Object(<<>>), Object([k \in {<<"b">>} |-> Num(1)])}
    \cup {Object([k \in {<<"a">>} |-> v]) : v \in Nests}
    \cup {Object([k \in {<<"a">>, <<"b">>} |-> IF k = <<"a">> THEN v ELSE Num(1)]) : v \in Nests}

\* A call of parse and what it gave.
Parse(obj, path) ==
  /\ scan = NoScan
  /\ scan' = [phase |-> "parsed", obj |-> obj, path |-> path, out |-> parseChain(obj, path)]
  /\ UNCHANGED <<ops, queue, connection, opens, created, store, store0, nfail, burst,
                 connections, manager, uses, engine>>

NextParse == \E obj \in Nested, path \in Paths : Parse(obj, path)

SpecParse == InitScan /\ [][NextParse]_vars

\* The value at the end of the chain when every segment exists, undefined
\* when one is missing.
RECURSIVE ValueAt(_, _)
ValueAt(v, chain) ==
  IF chain = <<>> THEN v
  ELSE IF HasProperty(v, Head(chain)) THEN ValueAt(Property(v, Head(chain)), Tail(chain))
  ELSE Undef

\* C29: parse of a record and a string path returns the nested value when
\* every segment of the path exists and undefined when one is missing; it
\* never throws, whatever is found at a segment on the way.
C29_ParseTotal ==
  (scan.phase = "parsed" /\ scan.path.t = "str") =>
    /\ scan.out.t # "thrown"
    /\ scan.out = ValueAt(scan.obj, makeKeyChain(scan.path.v))

----------------------------------------------------------------------------
\* The upgrade of the database: request.onupgradeneeded of the constructor.

\* The names a store of the database can have: the declared ones and another.
EngineStores == TwoStores \cup {"s3"}

\* The index lists a store can be declared with.
Declarations ==
  {<<>>,
   <<[name |-> "name"]>>,
   <<[name |-> "byName", keyPath |-> "name"]>>,
   <<[name |-> "byName", keyPath |-> "name", unique |-> TRUE]>>,
   <<[name |-> "id", unique |-> TRUE], [name |-> "byName", keyPath |-> "name"]>>}

\* The indexes a store of the database can have before the upgrade.
OldIndexes ==
  {[name |-> "byName", keyPath |-> "name", unique |-> FALSE, multiEntry |-> FALSE],
   [name |-> "old", keyPath |-> "id", unique |-> FALSE, multiEntry |-> FALSE]}

\* item.indexes of the declared store s: s1 declares indexes, s2 none.
IndexesOf(s) == IF s = "s1" THEN manager.stores.indexes ELSE <<>>

\* { keyPath, autoIncrement } of createObjectStore for the declared store s.
StoreOptions(s) ==
  [keyPath |-> IF "primaryKeyPath" \in DOMAIN StoreConfig(s)
                 THEN Str(StoreConfig(s).primaryKeyPath) ELSE Undef,
   autoIncrement |-> "autoIncrement" \in DOMAIN StoreConfig(s)]

\* objectStore.createIndex(item.name, item.keyPath || item.name, { unique,
\* multiEntry }): the declared key paths are strings, so multiEntry is false.
createIndex(item) ==
  [name |-> item.name,
   keyPath |-> IF "keyPath" \in DOMAIN item THEN item.keyPath ELSE item.name,
   unique |-> "unique" \in DOMAIN item /\ item.unique,
   multiEntry |-> FALSE]

\* The declared store after stores.forEach has handled it: the store that
\* exists is taken as it is, one that does not is created; its indexes are
\* deleted and the declared ones created.
Declared(s, stores) ==
  [options |-> IF s \in DOMAIN stores THEN stores[s].options ELSE StoreOptions(s),
   indexes |-> {createIndex(IndexesOf(s)[n]) : n \in 1..Len(IndexesOf(s))}]

\* The stores when the handler returns: the declared ones; every store that
\* is not in the declaration has been deleted.
Upgraded(stores) == [s \in manager.stores.names |-> Declared(s, stores)]

\* A unique index cannot be built: two records of the store have the same
\* key at its key path.
Violated(ix, recs) ==
  /\ ix.unique
  /\ \E r1, r2 \in Records(recs) :
       /\ r1 # r2
       /\ IndexKey(Value(r1, ix.keyPath))
       /\ StrictEq(Value(r1, ix.keyPath), Value(r2, ix.keyPath))

\* request.onupgradeneeded: the whole handler.  The records of a deleted store
\* go with it.
Upgrade ==
  /\ engine.phase = "needed"
  /\ engine' = [phase |-> "running", stores |-> Upgraded(engine.stores),
                before |-> engine.stores]
  /\ store' = [s \in EngineStores |->
                 IF s \in manager.stores.names THEN store[s]
                 ELSE [k \in KeyVals |-> Undef]]
  /\ UNCHANGED <<ops, queue, connection, opens, created, store0, nfail, scan, burst,
                 connections, manager, uses>>

\* The engine cannot build one of the indexes of the upgrade.
Doomed ==
  \E s \in DOMAIN engine.stores : \E ix \in engine.stores[s].indexes :
    Violated(ix, store[s])

\* The upgrade transaction completes.
UpgradeComplete ==
  /\ engine.phase = "running"
  /\ ~Doomed
  /\ engine' = [engine EXCEPT !.phase = "done"]
  /\ UNCHANGED <<ops, queue, connection, opens, created, store, store0, nfail, scan, burst,
                 connections, manager, uses>>

\* The engine aborts the upgrade transaction because an index with a unique
\* constraint cannot be built on the records of its store: the stores, the
\* indexes and the records are as before the upgrade.
UpgradeAbort ==
  /\ engine.phase = "running"
  /\ Doomed
  /\ engine' = [engine EXCEPT !.phase = "aborted", !.stores = engine.before]
  /\ store' = store0
  /\ UNCHANGED <<ops, queue, connection, opens, created, store0, nfail, scan, burst,
                 connections, manager, uses>>

\* A store of the database before the upgrade.
OldStores ==
  [options : {[keyPath |-> Str(primaryKeyPath), autoIncrement |-> FALSE]},
   indexes : SUBSET OldIndexes]

\* The manager is constructed on a database of any stores and indexes; the
\* store s1 holds any records, the other stores one record.
InitUpgrade ==
  /\ ops = <<>>
  /\ queue = [s \in TwoStores |-> <<>>]
  /\ connection = FALSE
  /\ opens = <<>>
  /\ created = <<>>
  /\ \E names \in SUBSET EngineStores :
       /\ engine \in [phase : {"needed"}, stores : [names -> OldStores]]
       /\ store0 \in {f \in [EngineStores -> Contents] :
                        \A s \in EngineStores :
                          /\ s \notin names => \A k \in KeyVals : f[s][k] = Undef
                          /\ (s \in names /\ s # "s1") =>
                               (f[s][0] = Undef /\ f[s][1] # Undef)}
  /\ store = store0
  /\ nfail = 0
  /\ scan = NoScan
  /\ burst = FALSE
  /\ connections = {}
  /\ \E declared \in Declarations :
       manager = [cache |-> Constructed(TwoStores).cache,
                  stores |-> [t |-> "arr", names |-> TwoStores, indexes |-> declared]]
  /\ uses = <<>>

NextUpgrade ==
  \/ Upgrade
  \/ UpgradeComplete
  \/ UpgradeAbort

SpecUpgrade == InitUpgrade /\ [][NextUpgrade]_vars

\* The names and key paths of a set of indexes.
Shape(ixs) == {[name |-> ix.name, keyPath |-> ix.keyPath] : ix \in ixs}

\* The names and key paths a list of index declarations asks for: the key
\* path is the name of the index when none is given.
Asked(items) ==
  {[name |-> items[n].name,
    keyPath |-> IF "keyPath" \in DOMAIN items[n] THEN items[n].keyPath ELSE items[n].name] :
     n \in 1..Len(items)}

\* C27: after the upgrade routine has run, the stores of the database are the
\* declared ones, every declared store has the declared indexes, each on its
\* declared key path (its name when none is given), every store that is not
\* declared is gone, and the records of the stores that existed and are still
\* declared are unchanged.
C27_UpgradeMatches ==
  engine.phase \in {"running", "done", "aborted"} =>
    /\ DOMAIN engine.stores = manager.stores.names
    /\ \A s \in manager.stores.names :
         Shape(engine.stores[s].indexes) = Asked(IndexesOf(s))
    /\ \A s \in EngineStores \ manager.stores.names :
         s \notin DOMAIN engine.stores /\ \A k \in KeyVals : store[s][k] = Undef
    /\ \A s \in manager.stores.names : store[s] = store0[s]

----------------------------------------------------------------------------
\* The InDB of src/src/indb.js that keeps its writable transactions in
\* this.runtimes.  `ops` holds the runtimes in the order of the calls of
\* request(prepare, writable), `queue` is this.runtimes of the instance and
\* `manager` the instance with its timeout.

MaxRuntimes == 3
Timeouts == {0, 1}

\* createRuntime(), for a call that found prev last in the queue (0: none):
\* status 1 and a pending deferer.  `at` is where the call is: it waits for
\* the deferer of prev, db() is opening the database, db() cannot settle, or
\* the transaction exists and the request is issued.
createRuntime(writable, prev) ==
  [w |-> writable, status |-> 1, deferer |-> "pending", prev |-> prev,
   at |-> IF writable /\ prev # 0 THEN "waiting" ELSE "opening",
   via |-> "call", tx |-> "none", rq |-> "none", timer |-> "none", p |-> "pending",
   res |-> Undef]

\* runtime.complete(): the runtime leaves the queue if it is in it.
Spliced(q, i) == SelectSeq(q, LAMBDA j : j # i)

\* runtime.status after runtime.complete(): 0 only when it was in the queue.
Completed(o, i, q) == IF i \in Range(q) THEN 0 ELSE o.status

\* runtime.resolve() and runtime.reject(): a settled deferer stays as it is.
Settle(o, how) == IF o.deferer = "pending" THEN how ELSE o.deferer

\* request(prepare, writable) up to the return of transaction(writable).
RuntimeCall(writable) ==
  /\ Len(ops) < MaxRuntimes
  /\ LET q == queue["s1"]
         prev == IF q = <<>> THEN 0 ELSE q[Len(q)]
     IN  /\ ops' = Append(ops, createRuntime(writable, prev))
         /\ queue' = IF writable THEN [queue EXCEPT !["s1"] = Append(q, Len(ops) + 1)]
                      ELSE queue
  /\ UNCHANGED <<connection, opens, created, store, store0, nfail, scan, burst,
                 connections, manager, uses, engine>>

\* prevRuntime.deferer.then(request(runtime)).catch(request(runtime)): the
\* deferer of the runtime before has settled and request(runtime) runs.
RuntimeGoes(i) ==
  /\ ops[i].at = "waiting"
  /\ ops[ops[i].prev].deferer # "pending"
  /\ ops' = [ops EXCEPT ![i].at = "opening",
                         ![i].via = IF ops[ops[i].prev].deferer = "resolved"
                                    THEN "then" ELSE "catch"]
  /\ UNCHANGED <<queue, connection, opens, created, store, store0, nfail, scan, burst,
                 connections, manager, uses, engine>>

\* db() resolves: the transaction is created, its handlers and the timer are
\* set, and the callback of request() issues the request.
RuntimeDb(i) ==
  /\ ops[i].at = "opening"
  /\ ops' = [ops EXCEPT ![i].at = "requested", ![i].tx = "active", ![i].rq = "pending",
                         ![i].timer = IF manager.timeout > 0 THEN "set" ELSE "none"]
  /\ UNCHANGED <<queue, connection, opens, created, store, store0, nfail, scan, burst,
                 connections, manager, uses, engine>>

\* The database cannot be opened: request.onerror of db() calls modifyError
\* with the event of the error.
RuntimeDbError(i) ==
  /\ ops[i].at = "opening"
  /\ nfail < MaxFailures
  /\ nfail' = nfail + 1
  /\ ops' = [ops EXCEPT ![i] = [Rejection(@, ErrorEvent) EXCEPT
                                   !.at = IF modifyError(ErrorEvent).t = "thrown"
                                          THEN "hung" ELSE "failed"]]
  /\ UNCHANGED <<queue, connection, opens, created, store, store0, scan, burst,
                 connections, manager, uses, engine>>

\* request.onsuccess: resolve(result).
RuntimeSuccess(i) ==
  /\ ops[i].rq = "pending"
  /\ ops[i].tx = "active"
  /\ ops' = [ops EXCEPT ![i].rq = "done", ![i].p = "resolved"]
  /\ UNCHANGED <<queue, connection, opens, created, store, store0, nfail, scan, burst,
                 connections, manager, uses, engine>>

\* tx.onerror after the event e of an error: runtime.reject(modifyError(e)),
\* then runtime.complete() unless modifyError threw.
OnError(o, i, q) ==
  IF modifyError(ErrorEvent).t = "thrown" THEN o
  ELSE [o EXCEPT !.deferer = Settle(o, "rejected"), !.status = Completed(o, i, q)]

\* The request fails: request.onerror, then tx.onerror as the event bubbles;
\* nothing prevents the default, so the transaction is going to abort.
RuntimeError(i) ==
  /\ ops[i].rq = "pending"
  /\ ops[i].tx = "active"
  /\ nfail < MaxFailures
  /\ nfail' = nfail + 1
  /\ ops' = [ops EXCEPT ![i] = [OnError(Rejection(@, ErrorEvent), i, queue["s1"]) EXCEPT
                                   !.rq = "done", !.tx = "errored"]]
  /\ queue' = IF modifyError(ErrorEvent).t = "thrown" THEN queue
               ELSE [queue EXCEPT !["s1"] = Spliced(@, i)]
  /\ UNCHANGED <<connection, opens, created, store, store0, scan, burst,
                 connections, manager, uses, engine>>

\* tx.oncomplete: runtime.resolve(), runtime.complete().
RuntimeTxComplete(i) ==
  /\ ops[i].tx = "active"
  /\ ops[i].rq = "done"
  /\ ops' = [ops EXCEPT ![i].tx = "finished", ![i].deferer = Settle(ops[i], "resolved"),
                         ![i].status = Completed(ops[i], i, queue["s1"])]
  /\ queue' = [queue EXCEPT !["s1"] = Spliced(@, i)]
  /\ UNCHANGED <<connection, opens, created, store, store0, nfail, scan, burst,
                 connections, manager, uses, engine>>

\* tx.onabort: runtime.resolve(), runtime.complete().
RuntimeTxAbort(i) ==
  /\ ops[i].tx = "errored"
  /\ ops' = [ops EXCEPT ![i].tx = "finished", ![i].deferer = Settle(ops[i], "resolved"),
                         ![i].status = Completed(ops[i], i, queue["s1"])]
  /\ queue' = [queue EXCEPT !["s1"] = Spliced(@, i)]
  /\ UNCHANGED <<connection, opens, created, store, store0, nfail, scan, burst,
                 connections, manager, uses, engine>>

\* The callback of setTimeout: if runtime.status, runtime.reject(new Error(
\* '[InDB]: transaction timeout')) and runtime.complete().
RuntimeTimeout(i) ==
  /\ ops[i].timer = "set"
  /\ ops' = [ops EXCEPT ![i].timer = "fired",
                         ![i].deferer = IF ops[i].status = 1 THEN Settle(ops[i], "rejected")
                                        ELSE @,
                         ![i].status = IF ops[i].status = 1
                                       THEN Completed(ops[i], i, queue["s1"]) ELSE 0]
  /\ queue' = IF ops[i].status = 1 THEN [queue EXCEPT !["s1"] = Spliced(@, i)] ELSE queue
  /\ UNCHANGED <<connection, opens, created, store, store0, nfail, scan, burst,
                 connections, manager, uses, engine>>

\* new InDB({ stores, timeout }): `this.runtimes = []`, `this.timeout =
\* timeout || 0`.
InitRuntimes ==
  /\ ops = <<>>
  /\ queue = [s \in Stores |-> <<>>]
  /\ connection = FALSE
  /\ opens = <<>>
  /\ created = <<>>
  /\ store0 = [s \in Stores |-> [k \in KeyVals |-> Undef]]
  /\ store = store0
  /\ nfail = 0
  /\ scan = NoScan
  /\ burst = FALSE
  /\ connections = {}
  /\ manager \in [timeout : Timeouts]
  /\ uses = <<>>
  /\ engine = NoUpgrade

NextRuntimes ==
  \/ \E writable \in BOOLEAN : RuntimeCall(writable)
  \/ \E i \in 1..Len(ops) : RuntimeGoes(i)
  \/ \E i \in 1..Len(ops) : RuntimeDb(i)
  \/ \E i \in 1..Len(ops) : RuntimeDbError(i)
  \/ \E i \in 1..Len(ops) : RuntimeSuccess(i)
  \/ \E i \in 1..Len(ops) : RuntimeError(i)
  \/ \E i \in 1..Len(ops) : RuntimeTxComplete(i)
  \/ \E i \in 1..Len(ops) : RuntimeTxAbort(i)
  \/ \E i \in 1..Len(ops) : RuntimeTimeout(i)

SpecRuntimes == InitRuntimes /\ [][NextRuntimes]_vars

\* C31: with a timeout above 0, when the timer of an operation fires and its
\* transaction has not completed, aborted or errored, the promise the caller
\* holds is rejected.
C31_TimeoutRejects ==
  [][\A i \in 1..Len(ops) :
       (/\ manager.timeout > 0
        /\ ops[i].timer = "set"
        /\ ops'[i].timer = "fired"
        /\ ops[i].tx = "active") => ops'[i].p = "rejected"]_vars

\* The runtime has finished: its transaction completed, aborted or errored, or
\* its timer fired.
Finished(o) == o.tx \in {"errored", "finished"} \/ o.timer = "fired"

\* C32: a writable runtime has its transaction opened only when every writable
\* runtime before it has finished, the queue holds each runtime at most once,
\* and it holds exactly the writable runtimes that have not finished.
C32_RuntimesQueue ==
  /\ \A i, j \in 1..Len(ops) :
       (j < i /\ ops[i].w /\ ops[j].w /\ ops[i].tx # "none") => Finished(ops[j])
  /\ \A m, n \in 1..Len(queue["s1"]) : m # n => queue["s1"][m] # queue["s1"][n]
  /\ Range(queue["s1"]) = {i \in 1..Len(ops) : ops[i].w /\ ~Finished(ops[i])}

----------------------------------------------------------------------------
\* The bookkeeping of _queue.

\* The calls of transaction() on the facade of s whose transaction has not
\* finished.
Unfinished_Calls(s) ==
  {i \in 1..Len(ops) : ops[i].st = s /\ ops[i].d # "none" /\ ops[i].tx # "finished"}

\* C33: the _queue of a facade has as many entries as there are calls of
\* transaction() on it whose transaction has not finished (every transaction
\* takes one entry out, also when it errors and aborts), and it is empty once
\* the transaction of every operation has finished.
C33_QueueCount ==
  /\ \A s \in Stores : Len(queue[s]) = Cardinality(Unfinished_Calls(s))
  /\ (\A s \in Stores : Unfinished_Calls(s) = {}) => \A s \in Stores : queue[s] = <<>>

----------------------------------------------------------------------------
\* Operations issued without awaiting on the facades of one manager, with an
\* engine that answers: every open, request and cursor step succeeds and every
\* transaction gets its last event.

MaxLive == 2
MaxLiveStopAt == 1

\* Every key of the store s1 holds a record, the store s2 holds one.
InitLive ==
  /\ InitRead
  /\ \A k \in KeyVals : store0["s1"][k] # Undef
  /\ store0["s2"][0] = Undef /\ store0["s2"][1] # Undef

UnawaitedLive == Callable /\ Len(ops) < MaxLive

\* What runs without the caller: the reactions and the events of the engine.
Answers ==
  \/ \E i \in 1..Len(ops) : ThenCreate(i)
  \/ \E i \in 1..Len(ops) : CreateTx(i)
  \/ OpenSuccess
  \/ \E i \in 1..Len(ops) : RequestSuccess(i)
  \/ \E i \in 1..Len(ops) : CursorSuccess(i)
  \/ \E i \in 1..Len(ops) : CursorEnd(i)
  \/ \E i \in 1..Len(ops) : TxComplete(i)
  \/ \E i \in 1..Len(ops) : TxAbort(i)

NextLive ==
  \/ UnawaitedLive /\ \E s \in TwoStores : Count(s)
  \/ UnawaitedLive /\ \E s \in TwoStores : Clear(s)
  \/ UnawaitedLive /\ \E index \in IndexArgs, w \in BOOLEAN, stopAt \in 0..MaxLiveStopAt :
                         Iterate("s1", index, w, stopAt)
  \/ Answers

\* The event loop runs every reaction and the engine delivers every event.
SpecLive == InitLive /\ [][NextLive]_vars /\ WF_vars(Answers)

\* C34: with an engine that answers, the promise of every operation issued
\* on the facades of a manager eventually resolves.
C34_EveryPromiseResolves ==
  \A i \in 1..MaxLive :
    [](i <= Len(ops) => <>(i <= Len(ops) /\ ops[i].p = "resolved"))

----------------------------------------------------------------------------
\* The read operations on a facade, every one through transaction().

MaxFrame == 2
MaxSomeCount == 2
MaxSomeOffset == 2

\* some(count, offset): iterate(fn, { direction }) on the store; fn calls
\* stop() at the record after the window.
StoreSome(s, count, offset) ==
  request(s, "some", Undef, "openCursor",
          [direction |-> SomeWindow(count, offset).direction,
           stopAt |-> SomeWindow(count, offset).end + 1], FALSE)

\* first() and last(): some(1) and some(1, -1).
StoreFirst(s) == StoreSome(s, 1, 0)

StoreLast(s) == StoreSome(s, 1, -1)

\* query(key, value, compare): cursor({ index: key, range }), no writable.
StoreQuery(s, key, value, compare) ==
  request(s, "query", value, "openCursor",
          [direction |-> "next", index |-> key, range |-> RangeOf(value, compare)], FALSE)

\* select(...rules): each(fn) with a fn that tests the record in memory.
StoreSelect(s) == iterate(s, "select", "next")

\* The arguments of get: a key, undefined, and an array of two keys.
FrameKeys == GetArgs \cup {Arr(<<Num(0), Num(1)>>)}

\* The arguments of query.
FrameQueries ==
  {[value |-> v, compare |-> c] : v \in {Num(1), Str("a")}, c \in {">", "<=", "=", "!="}}

AwaitedFrame == Callable /\ Len(ops) < MaxFrame /\ \A i \in 1..Len(ops) : Over(ops[i])

NextFrame ==
  \/ AwaitedFrame /\ \E s \in Stores, key \in FrameKeys : Get(s, key)
  \/ AwaitedFrame /\ \E s \in Stores : Keys(s)
  \/ AwaitedFrame /\ \E s \in Stores : All(s)
  \/ AwaitedFrame /\ \E s \in Stores : Count(s)
  \/ AwaitedFrame /\ \E s \in Stores : Each(s)
  \/ AwaitedFrame /\ \E s \in Stores : Reverse(s)
  \/ AwaitedFrame /\ \E s \in Stores, count \in 0..MaxSomeCount,
                         offset \in (-MaxSomeOffset)..MaxSomeOffset : StoreSome(s, count, offset)
  \/ AwaitedFrame /\ \E s \in Stores : StoreFirst(s)
  \/ AwaitedFrame /\ \E s \in Stores : StoreLast(s)
  \/ AwaitedFrame /\ \E s \in Stores, key \in FindNames, value \in FindValues :
                        Find(s, key, value)
  \/ AwaitedFrame /\ \E s \in Stores, key \in IndexNames, a \in FrameQueries :
                        StoreQuery(s, key, a.value, a.compare)
  \/ AwaitedFrame /\ \E s \in Stores : StoreSelect(s)
  \/ \E i \in 1..Len(ops) : ThenCreate(i)
  \/ \E i \in 1..Len(ops) : CreateTx(i)
  \/ OpenSuccess
  \/ OpenError
  \/ \E i \in 1..Len(ops) : RequestSuccess(i)
  \/ \E i \in 1..Len(ops) : BatchSuccess(i)
  \/ \E i \in 1..Len(ops) : CursorSuccess(i)
  \/ \E i \in 1..Len(ops) : CursorEnd(i)
  \/ \E i \in 1..Len(ops) : TxComplete(i)

SpecFrame == Init /\ [][NextFrame]_vars

\* C35: the read operations leave the records of the store as they were and
\* ask transaction() for a read-only transaction only.
C35_ReadsFrame ==
  /\ store = store0
  /\ \A i \in 1..Len(ops) : ~ops[i].w

\* A some() has stopped its scan before the last record of the store and has
\* resolved, after a get whose key the engine refused.
C35_Witness ==
  /\ Len(ops) = 2
  /\ ops[1].kind = "get" /\ ops[1].rq = "threw"
  /\ ops[2].kind = "some" /\ ops[2].p = "resolved"
  /\ ops[2].tx = "finished"
  /\ Len(ops[2].res.items) = ops[2].target.stopAt
  /\ Ahead(ops[2], store[ops[2].st]) # <<>>

----------------------------------------------------------------------------
\* A request of the batch of call i has failed.
BatchFailed(i) ==
  /\ Batched(ops[i].arg)
  /\ ops[i].rq = "done"
  /\ Len(ops[i].res.items) < Len(ops[i].arg.items)

\* C36: when add is called with an array of two or more records and the add
\* of one of them fails, the promise rejects and the store holds what it held
\* before the call.
C36_BatchAddAtomic ==
  \A i \in 1..Len(ops) :
    (ops[i].kind = "add" /\ BatchFailed(i)) =>
      /\ ops[i].p = "rejected"
      /\ Len(ops) = 1 => store = store0

----------------------------------------------------------------------------
\* The store after delete(x) (remove(x)) has been awaited for one element: the
\* singular path returns early on a falsy key, remove also on a falsy record.
Singular(kind, x, recs) ==
  LET key == IF kind = "remove" THEN parse(x, primaryKeyPath) ELSE x
  IN IF (kind = "remove" /\ RemoveIsNoop(x)) \/ DeleteIsNoop(key) THEN recs
     ELSE [recs EXCEPT ![key.v] = Undef]

\* The store after the singular call has been awaited for each of the first n
\* elements in turn.
RECURSIVE InTurn(_, _, _, _)
InTurn(kind, items, n, recs) ==
  IF n = 0 THEN recs ELSE Singular(kind, items[n], InTurn(kind, items, n - 1, recs))

\* C37: delete(keys) and remove(records) with a list of two or more elements
\* settle as the singular calls do (they resolve) and leave the store as
\* awaiting delete(k), or remove(r), for each element in turn does.
C37_BatchAsSingular ==
  \A i \in 1..Len(ops) :
    (ops[i].kind \in {"delete", "remove"} /\ Batched(ops[i].arg) /\ ops[i].rq = "done") =>
      /\ ops[i].p = "resolved"
      /\ Len(ops) = 1 =>
           store[ops[i].st] = InTurn(ops[i].kind, ops[i].arg.items, Len(ops[i].arg.items),
                                     store0[ops[i].st])

----------------------------------------------------------------------------
\* The rules of the select that asks what a query asks: one group of the one
\* condition { key, value, compare }.
RuleOf(key, value, compare) ==
  <<<<[key |-> key, value |-> value, compare |-> compare, optional |-> FALSE]>>>>

\* The records select(rules) resolves to on the records of source.
SelectedBy(source, rules) == {r \in Range(source) : isOk(r, GroupsOf(rules))}

\* C38: on a store whose indexed values are of one type, query(index, value,
\* compare) resolves to the set of records that select([{ key: index, value,
\* compare }]) resolves to, for every declared index, value and comparator.
C38_QueryAsSelect ==
  scan.phase = "queried" =>
    Range(scan.out) = SelectedBy(scan.source, RuleOf(scan.key, scan.value, scan.compare))

====
